---------------------------- MODULE Spec2Model ----------------------------
(***************************************************************************)
(* A model of the XeTile workgroup-to-subgroup pass                        *)
(* (lib/Dialect/XeTile/Transforms/WgToSg.cpp).                             *)
(*                                                                         *)
(* Each rewrite pattern is an operator from the matched operation (with    *)
(* its already remapped operands) to the outcome of matchAndRewrite: the   *)
(* status, the operations created in program order and the replacement     *)
(* value lists.  Index arithmetic the patterns emit is kept symbolic and   *)
(* evaluated per subgroup id by the Exec actions.                          *)
(*                                                                         *)
(* C++ arrays are 0-based, TLA+ tuples 1-based: sgLayout[0] of the source  *)
(* is sgLayout[1] here, sgLayout[1] is sgLayout[2].                        *)
(***************************************************************************)
EXTENDS Integers, Sequences, FiniteSets, TLC

VARIABLES
  op,           \* the operation matchAndRewrite is applied to
  sgLayoutMap,  \* XeTileWgToSgPass::sgLayoutMap : value -> layout order
  rewriter,     \* what the ConversionPatternRewriter recorded for op
  sgRuns,       \* the generated index arithmetic, evaluated per subgroup id
  module,       \* the operations of the module, in walk order
  toConvert,    \* the operations in the order the driver takes them
  cursor,       \* how many operations of the module have been handled
  created,      \* the operations created so far, in program order
  mapping,      \* the replacement values recorded for replaced operations
  pc,           \* where runOnOperation / the analysis stands
  passResult,   \* "none", "success", or "failure" once signalPassFailure ran
  loadOps,      \* analyzeTransposeOps: the load_tile ops still to iterate
  initOps       \* analyzeTransposeOps: the init_tile ops still to iterate

ruleVars == <<op, rewriter, sgRuns>>
passVars == <<module, toConvert, cursor, created, mapping, pc, passResult,
              loadOps, initOps>>
vars == <<op, sgLayoutMap, rewriter, sgRuns,
          module, toConvert, cursor, created, mapping, pc, passResult,
          loadOps, initOps>>

\* The pass-level state of the specifications that apply one pattern to
\* one operation.
NoModule ==
  /\ module = <<>>
  /\ toConvert = <<>>
  /\ cursor = 0
  /\ created = <<>>
  /\ mapping = <<>>
  /\ pc = "pattern"
  /\ passResult = "none"
  /\ loadOps = <<>>
  /\ initOps = <<>>

(***************************************************************************)
(* Bounds of the model.                                                    *)
(***************************************************************************)
MaxRounds == 2      \* wgTileShape[k] / (sgLayout[k] * sgData[k]) at most
MaxSgLayout == 2    \* sgLayout[k] at most
MaxSgData == 2      \* sgData[k] at most

\* The value an init_tile defines in the single-operation specifications.
InitResult == "init"

Pending == [status |-> "pending", newOps |-> <<>>, replacement |-> <<>>]

(***************************************************************************)
(* index dialect arithmetic (unsigned, on values far below 2^64).          *)
(***************************************************************************)
DivUOp(a, b) == a \div b
RemUOp(a, b) == a % b

\* A subgroup coordinate as the pattern emits it: divu or remu of the
\* linear subgroup id by a constant.
EvalSgId(e, sgID) ==
  IF e.op = "divu" THEN DivUOp(sgID, e.rhs) ELSE RemUOp(sgID, e.rhs)

(***************************************************************************)
(* WGToSGInitTileOpPattern                                                 *)
(***************************************************************************)
\* Mutant: the divisor is sgLayout[1] whether or not the result is marked.
InitTileSgIdY_RowMajor(o, map) == [op |-> "divu", rhs |-> o.sgLayout[2]]

\* sgIdY: index.divu of the subgroup id, by sgLayout[0] when the result is
\* in sgLayoutMap and by sgLayout[1] otherwise.
InitTileSgIdY(o, map) ==
  IF o.result \in DOMAIN map
    THEN [op |-> "divu", rhs |-> o.sgLayout[1]]
    ELSE [op |-> "divu", rhs |-> o.sgLayout[2]]

\* sgIdX: index.remu of the subgroup id by the same constant.
InitTileSgIdX(o, map) ==
  IF o.result \in DOMAIN map
    THEN [op |-> "remu", rhs |-> o.sgLayout[1]]
    ELSE [op |-> "remu", rhs |-> o.sgLayout[2]]

\* The loop of calculateGlobalOffsets from counter value i on: one global
\* offset  offset + ((i + sgId) remu (wgTileShape / sgTileShape)) * sgData
\* per iteration, i stepping by sgLayout.
RECURSIVE GlobalOffsetsFrom(_, _, _, _, _, _)
GlobalOffsetsFrom(i, wgTileShape, sgTileShape, sgLayout, sgId, offset) ==
  IF i < wgTileShape \div sgTileShape
    THEN <<[i |-> i, sgId |-> sgId, mod |-> wgTileShape \div sgTileShape,
            mul |-> sgTileShape, offset |-> offset]>>
         \o GlobalOffsetsFrom(i + sgLayout, wgTileShape, sgTileShape,
                              sgLayout, sgId, offset)
    ELSE <<>>

\* Mutant: the loop counter steps by 1 instead of sgLayout.
calculateGlobalOffsets_StepOne(wgTileShape, sgTileShape, sgLayout, sgId, offset) ==
  GlobalOffsetsFrom(0, wgTileShape, sgTileShape, 1, sgId, offset)

calculateGlobalOffsets(wgTileShape, sgTileShape, sgLayout, sgId, offset) ==
  GlobalOffsetsFrom(0, wgTileShape, sgTileShape, sgLayout, sgId, offset)

\* Mutant: the row axis takes sgIdY also for a marked result.
InitTileRowSgId_NoSwap(o, map) == InitTileSgIdY(o, map)

\* The sg coordinate handed to the row axis (globalOffsetsX) ...
InitTileRowSgId(o, map) ==
  IF o.result \in DOMAIN map THEN InitTileSgIdX(o, map)
                             ELSE InitTileSgIdY(o, map)

\* Mutant: the column axis takes sgIdX also for a marked result.
InitTileColSgId_NoSwap(o, map) == InitTileSgIdX(o, map)

\* ... and to the column axis (globalOffsetsY).
InitTileColSgId(o, map) ==
  IF o.result \in DOMAIN map THEN InitTileSgIdY(o, map)
                             ELSE InitTileSgIdX(o, map)

globalOffsetsX(o, map) ==
  calculateGlobalOffsets(o.shape[1], o.sgData[1], o.sgLayout[1],
                         InitTileRowSgId(o, map),
                         o.offsets[Len(o.offsets) - 1])

globalOffsetsY(o, map) ==
  calculateGlobalOffsets(o.shape[2], o.sgData[2], o.sgLayout[2],
                         InitTileColSgId(o, map),
                         o.offsets[Len(o.offsets)])

\* for (y : globalOffsetsX) for (x : globalOffsetsY) push {y, x}
offsetPermutations(X, Y) ==
  [n \in 1..(Len(X) * Len(Y)) |->
     <<X[((n - 1) \div Len(Y)) + 1], Y[((n - 1) % Len(Y)) + 1]>>]

\* newOffsets when the init_tile of offset permutation n is created
\* (lines 202-227): the leading offsets of the original are pushed once,
\* before the loop, and newOffsets.clear() at the end of every iteration
\* drops them, so only the first init_tile has them.
LeadingOffsets(o, n) ==
  IF n = 1 THEN SubSeq(o.offsets, 1, Len(o.offsets) - 2) ELSE <<>>

\* The init_tile created for one offset permutation: what newOffsets holds
\* before the row and the column offset, then these two; tile type of
\* shape sgData without attributes.
NewInitTile(o, leading, perm) ==
  [kind |-> "init_tile", shape |-> o.sgData, wgMap |-> FALSE,
   scatter |-> FALSE, order |-> <<1, 0>>, memorySpace |-> "default",
   leading |-> leading, row |-> perm[1], col |-> perm[2]]

\* Mutant: the scatter tile type is built like the blocked one, without
\* the memory space of the original.
NewScatterInitTile_DefaultSpace(o) ==
  [kind |-> "init_tile", shape |-> o.sgData, wgMap |-> FALSE,
   scatter |-> TRUE, order |-> <<1, 0>>, memorySpace |-> "default",
   indices |-> o.indices]

\* The init_tile created for a scatter tile.
NewScatterInitTile(o) ==
  [kind |-> "init_tile", shape |-> o.sgData, wgMap |-> FALSE,
   scatter |-> TRUE, order |-> <<1, 0>>, memorySpace |-> o.memorySpace,
   indices |-> o.indices]

WGToSGInitTileOpPattern(o, map) ==
  IF o.order = <<0, 1>>
    THEN [status |-> "failure", newOps |-> <<>>, replacement |-> <<>>]
  ELSE IF o.scatter
    THEN [status |-> "success", newOps |-> <<NewScatterInitTile(o)>>,
          replacement |-> <<NewScatterInitTile(o)>>]
  ELSE LET perms == offsetPermutations(globalOffsetsX(o, map),
                                       globalOffsetsY(o, map))
           tiles == [n \in 1..Len(perms) |->
                      NewInitTile(o, LeadingOffsets(o, n), perms[n])]
       IN  IF Len(perms) > 0 /\ ~o.sourceIsMemRef
             THEN [status |-> "failure", newOps |-> <<>>,
                   replacement |-> <<>>]
             ELSE [status |-> "success", newOps |-> tiles,
                   replacement |-> tiles]

\* One global offset for subgroup sgID.
EvalOffset(t, sgID) ==
  t.offset + RemUOp(t.i + EvalSgId(t.sgId, sgID), t.mod) * t.mul

\* The generated init_tile ops as subgroup sgID executes them: the
\* coordinates it derives and the origin of every tile it creates.
ExecInitTiles(o, map, tiles, sgID) ==
  [sgID |-> sgID,
   sgIdX |-> EvalSgId(InitTileSgIdX(o, map), sgID),
   sgIdY |-> EvalSgId(InitTileSgIdY(o, map), sgID),
   tiles |-> [n \in 1..Len(tiles) |->
                [row |-> EvalOffset(tiles[n].row, sgID),
                 col |-> EvalOffset(tiles[n].col, sgID),
                 shape |-> tiles[n].shape]]]

(***************************************************************************)
(* SpecInitTile: one init_tile whose tile type carries a workgroup map.    *)
(***************************************************************************)
AxisDims ==
  { [w |-> k * l * d + r, l |-> l, d |-> d] :
      k \in 1..MaxRounds, l \in 1..MaxSgLayout, d \in 1..MaxSgData,
      r \in {0, 1} }

\* The sgLayout of the example in the source, [4, 8], with a 1:1 tile.
ExampleDims == << [w |-> 4, l |-> 4, d |-> 1], [w |-> 8, l |-> 8, d |-> 1] >>

AxisPairs ==
  { <<a, b>> : a \in AxisDims, b \in AxisDims } \cup { ExampleDims }

InitTileOps ==
  { [kind |-> "init_tile", result |-> InitResult,
     shape |-> <<p[1].w, p[2].w>>,
     sgLayout |-> <<p[1].l, p[2].l>>,
     sgData |-> <<p[1].d, p[2].d>>,
     order |-> ord, scatter |-> sc, memorySpace |-> "slm",
     indices |-> "indices", sourceIsMemRef |-> mr, offsets |-> offs] :
      p \in AxisPairs, ord \in {<<1, 0>>, <<0, 1>>}, sc \in BOOLEAN,
      mr \in BOOLEAN, offs \in {<<0, 0>>, <<5, 3, 7>>} }

NumSubgroups(o) == o.sgLayout[1] * o.sgLayout[2]

InitInitTile ==
  /\ op \in InitTileOps
  /\ sgLayoutMap \in {<<>>, [v \in {InitResult} |-> <<0, 1>>]}
  /\ rewriter = Pending
  /\ sgRuns = <<>>
  /\ NoModule

InitTileRewrite ==
  /\ op.kind = "init_tile"
  /\ rewriter.status = "pending"
  /\ rewriter' = WGToSGInitTileOpPattern(op, sgLayoutMap)
  /\ UNCHANGED <<op, sgLayoutMap, sgRuns>>
  /\ UNCHANGED passVars

\* The next subgroup of the workgroup runs the generated code.
InitTileExec ==
  /\ op.kind = "init_tile"
  /\ rewriter.status = "success"
  /\ ~op.scatter
  /\ Len(sgRuns) < NumSubgroups(op)
  /\ sgRuns' = Append(sgRuns,
                 ExecInitTiles(op, sgLayoutMap, rewriter.newOps, Len(sgRuns)))
  /\ UNCHANGED <<op, sgLayoutMap, rewriter>>
  /\ UNCHANGED passVars

NextInitTile == InitTileRewrite \/ InitTileExec

SpecInitTile == InitInitTile /\ [][NextInitTile]_vars

(***************************************************************************)
(* WGToSGTileMMAOpPattern                                                  *)
(***************************************************************************)
NoValue == [id |-> "null"]       \* mlir::Value() : no accumulator
Undefined == [id |-> "undef"]    \* what a read past the end of a range yields

\* What a build does with adaptor.getC()[i] for i >= size: the assertion of
\* ValueRange::operator[] aborts, or the read goes on with an undefined value.
OutOfRangeOutcomes == {"assert", "undefined"}

\* Mutant: B outer, A inner.
MMAOperandPair_BMajor(o, k) ==
  <<((k - 1) % Len(o.A)) + 1, ((k - 1) \div Len(o.A)) + 1>>

\* for (a : adaptor.getA()) for (b : adaptor.getB()): the indices of a and b
\* in the k-th iteration (k from 1).
MMAOperandPair(o, k) ==
  <<((k - 1) \div Len(o.B)) + 1, ((k - 1) % Len(o.B)) + 1>>

\* tmpC of the k-th iteration: adaptor.getC()[i++] when op.getC().
MMAAccumulator(o, k) ==
  IF ~o.hasC THEN NoValue
  ELSE IF k <= Len(o.C) THEN o.C[k]
  ELSE Undefined

NewTileMMA(o, k) ==
  LET a == o.A[MMAOperandPair(o, k)[1]]
      b == o.B[MMAOperandPair(o, k)[2]]
  IN  [kind |-> "tile_mma", a |-> a, b |-> b, c |-> MMAAccumulator(o, k),
       resTy |-> <<a.shape[1], b.shape[2]>>, wgMapA |-> FALSE]

WGToSGTileMMAOpPattern(o, outOfRange) ==
  IF o.rank # 2
    THEN [status |-> "failure", newOps |-> <<>>, replacement |-> <<>>]
  ELSE IF o.hasC /\ Len(o.C) < Len(o.A) * Len(o.B) /\ outOfRange = "assert"
    THEN [status |-> "abort", newOps |-> <<>>, replacement |-> <<>>]
  ELSE LET mmas == [k \in 1..(Len(o.A) * Len(o.B)) |-> NewTileMMA(o, k)]
       IN  [status |-> "success", newOps |-> mmas, replacement |-> mmas]

(***************************************************************************)
(* SpecMMA: one tile_mma with its operands already decomposed.             *)
(***************************************************************************)
MaxTiles == 3       \* decomposed values per operand at most

SeqsUpTo(S, n) == UNION { [1..m -> S] : m \in 0..n }

\* Decomposed A values (rows x 4) and B values (4 x cols).
MMAValuesA ==
  { [i \in 1..Len(rows) |-> [id |-> <<"A", i>>, shape |-> <<rows[i], 4>>]] :
      rows \in SeqsUpTo({8, 16}, MaxTiles) }

MMAValuesB ==
  { [j \in 1..Len(cols) |-> [id |-> <<"B", j>>, shape |-> <<4, cols[j]>>]] :
      cols \in SeqsUpTo({32, 64}, MaxTiles) }

MMAValuesC(n) == [k \in 1..n |-> [id |-> <<"C", k>>]]

TileMMAOps ==
  { [kind |-> "tile_mma", rank |-> 2, hasC |-> FALSE, A |-> a, B |-> b,
     C |-> <<>>] : a \in MMAValuesA, b \in MMAValuesB }
  \cup
  { [kind |-> "tile_mma", rank |-> rk, hasC |-> TRUE, A |-> a, B |-> b,
     C |-> MMAValuesC(n)] :
      a \in MMAValuesA, b \in MMAValuesB, rk \in {2, 3},
      n \in 0..(MaxTiles * MaxTiles + 1) }

InitMMA ==
  /\ op \in TileMMAOps
  /\ sgLayoutMap = <<>>
  /\ rewriter = Pending
  /\ sgRuns = <<>>
  /\ NoModule

TileMMARewrite ==
  /\ op.kind = "tile_mma"
  /\ rewriter.status = "pending"
  /\ \E outOfRange \in OutOfRangeOutcomes :
       rewriter' = WGToSGTileMMAOpPattern(op, outOfRange)
  /\ UNCHANGED <<op, sgLayoutMap, sgRuns>>
  /\ UNCHANGED passVars

NextMMA == TileMMARewrite

SpecMMA == InitMMA /\ [][NextMMA]_vars

(***************************************************************************)
(* WGToSGSCFForOpPattern                                                   *)
(***************************************************************************)
\* flattenedRemappedInitArgs: the remapped lists appended one after another.
RECURSIVE Flatten(_)
Flatten(lists) ==
  IF lists = <<>> THEN <<>> ELSE Head(lists) \o Flatten(Tail(lists))

remappedArgSizes(o) == [i \in 1..Len(o.initArgs) |-> Len(o.initArgs[i])]

\* Mutant: newResultOffset is never advanced.
newResultOffset_NoAdvance(sizes, i) == 0

\* newResultOffset when the result loop reaches original argument i
\* (i from 1): the sizes before it added up.
RECURSIVE newResultOffset(_, _)
newResultOffset(sizes, i) ==
  IF i <= 1 THEN 0 ELSE newResultOffset(sizes, i - 1) + sizes[i - 1]

\* The signature conversion of the old body: input 0 keeps its type, input
\* i gets the types of remappedInitArgs[i - 1].
ConvertedBodyArgTypes(o) ==
  <<o.inductionVarType>>
    \o Flatten([i \in 1..Len(o.initArgs) |->
                  [t \in 1..Len(o.initArgs[i]) |-> o.initArgs[i][t].type]])

\* scf::ForOp built from the flattened init args: one result per init arg,
\* of the init arg's type.
NewForOp(o) ==
  LET flat == Flatten(o.initArgs)
  IN  [kind |-> "for", initArgs |-> flat,
       bodyArgTypes |-> ConvertedBodyArgTypes(o),
       results |-> [n \in 1..Len(flat) |->
                      [id |-> <<"forResult", n>>, type |-> flat[n].type]]]

\* newForOp.getResults().slice(newResultOffset, remappedResultSize)
remappedResults(o, results) ==
  LET sizes == remappedArgSizes(o)
  IN  [i \in 1..Len(sizes) |->
         SubSeq(results, newResultOffset(sizes, i) + 1,
                newResultOffset(sizes, i) + sizes[i])]

WGToSGSCFForOpPattern(o) ==
  [status |-> "success", newOps |-> <<NewForOp(o)>>,
   replacement |-> remappedResults(o, NewForOp(o).results)]

(***************************************************************************)
(* SpecFor: one scf.for with its init args already remapped.               *)
(***************************************************************************)
MaxIterArgs == 3    \* loop-carried values of the original loop at most

\* The remapped list of original init arg i: n values of one type.
RemappedInitArg(i, n, ty) ==
  [t \in 1..n |-> [id |-> <<"init", i, t>>, type |-> ty]]

ForShapes ==
  SeqsUpTo((0..MaxTiles) \X {"tile", "vector"}, MaxIterArgs)

ForOps ==
  { [kind |-> "for", inductionVarType |-> "index",
     initArgs |-> [i \in 1..Len(sh) |->
                     RemappedInitArg(i, sh[i][1], sh[i][2])]] :
      sh \in ForShapes }

InitFor ==
  /\ op \in ForOps
  /\ sgLayoutMap = <<>>
  /\ rewriter = Pending
  /\ sgRuns = <<>>
  /\ NoModule

SCFForRewrite ==
  /\ op.kind = "for"
  /\ rewriter.status = "pending"
  /\ rewriter' = WGToSGSCFForOpPattern(op)
  /\ UNCHANGED <<op, sgLayoutMap, sgRuns>>
  /\ UNCHANGED passVars

NextFor == SCFForRewrite

SpecFor == InitFor /\ [][NextFor]_vars

(***************************************************************************)
(* WGToSGXeTileConvertLayout                                               *)
(*                                                                         *)
(* The index constants and index.divu/remu/mul ops that feed the two       *)
(* init_tile ops are kept as the symbolic row/col offsets of the init_tile *)
(* records; the other created ops are listed one by one in program order.  *)
(***************************************************************************)
NoMap == [present |-> FALSE, sgLayout |-> <<0, 0>>, sgData |-> <<0, 0>>]

WgMap(sgLayout, sgData) ==
  [present |-> TRUE, sgLayout |-> sgLayout, sgData |-> sgData]

isOneUseTranspose_AnyUses(o) == o.defOp = "transpose"
\* Line 659.
isOneUseTranspose(o) == o.defOp = "transpose" /\ o.defOpUses = 1

\* mlir::isa / dyn_cast on the null defining op of a block argument: the
\* source itself (line 660) or the operand of the folded transpose
\* (line 652).  Assertion failure or null dereference: the process dies.
ConvertLayoutDerefsNull(o) ==
  \/ o.defOp = "null"
  \/ isOneUseTranspose(o) /\ o.transposeOperandDef = "null"

srcMapAttr(o) ==
  IF isOneUseTranspose(o) THEN o.transposeOperandMap
  ELSE IF o.wgMapSource.present THEN o.wgMapSource
  ELSE o.defOpMap

dstMapAttr(o) == o.wgMapResult

\* Mutant: the row coordinate is the remainder, the column the quotient.
getOffsets_RemFirst(map, wrap) ==
  [x |-> [sgId |-> [op |-> "remu", rhs |-> map.sgLayout[2]],
          mul |-> map.sgData[1], wrap |-> wrap[1]],
   y |-> [sgId |-> [op |-> "divu", rhs |-> map.sgLayout[2]],
          mul |-> map.sgData[2], wrap |-> wrap[2]]]

\* getOffsets: offsetX = (sgId divu sgLayout[1]) * sgData[0],
\*             offsetY = (sgId remu sgLayout[1]) * sgData[1];
\* wrap is the divisor of the trailing index.remu of the load (0: none).
getOffsets(map, wrap) ==
  [x |-> [sgId |-> [op |-> "divu", rhs |-> map.sgLayout[2]],
          mul |-> map.sgData[1], wrap |-> wrap[1]],
   y |-> [sgId |-> [op |-> "remu", rhs |-> map.sgLayout[2]],
          mul |-> map.sgData[2], wrap |-> wrap[2]]]

\* slmSize = numElements * (bitWidth / 8)
slmSize(o) == (o.resShape[1] * o.resShape[2]) * (o.elemBitWidth \div 8)

\* Mutant: the barrier is created after the load.
ConvertLayoutNewOps_LateBarrier(o, n) ==
  << [kind |-> "memref.alloc", site |-> n, result |-> <<"slm", n>>,
      sizeBytes |-> slmSize(o)],
     [kind |-> "memref.view", site |-> n, source |-> <<"slm", n>>,
      shape |-> o.resShape, elemBitWidth |-> o.elemBitWidth,
      result |-> <<"view", n>>],
     [kind |-> "gpu.subgroup_id", site |-> n],
     [kind |-> "init_tile", site |-> n, source |-> <<"view", n>>,
      shape |-> srcMapAttr(o).sgData, order |-> <<1, 0>>, memorySpace |-> 3,
      wgMap |-> FALSE, offsets |-> getOffsets(srcMapAttr(o), <<0, 0>>),
      result |-> <<"stTile", n>>],
     [kind |-> "store_tile", site |-> n, value |-> o.source,
      tile |-> <<"stTile", n>>, buffer |-> <<"slm", n>>],
     [kind |-> "init_tile", site |-> n, source |-> <<"view", n>>,
      shape |-> dstMapAttr(o).sgData, order |-> <<1, 0>>, memorySpace |-> 3,
      wgMap |-> FALSE, offsets |-> getOffsets(dstMapAttr(o), o.resShape),
      result |-> <<"ldTile", n>>],
     [kind |-> "load_tile", site |-> n, tile |-> <<"ldTile", n>>,
      buffer |-> <<"slm", n>>, shape |-> dstMapAttr(o).sgData,
      result |-> <<"ld", n>>],
     [kind |-> "gpu.barrier", site |-> n] >>

\* The ops one application creates, n naming the values of this
\* application: alloc, view, subgroup id, (transposed view,) init_tile and
\* store_tile on the store side, barrier, init_tile and load_tile on the
\* load side.
ConvertLayoutNewOps(o, n) ==
  LET fold == isOneUseTranspose(o)
      stView == IF fold THEN <<"transposedView", n>> ELSE <<"view", n>>
  IN  << [kind |-> "memref.alloc", site |-> n, result |-> <<"slm", n>>,
          sizeBytes |-> slmSize(o)],
         [kind |-> "memref.view", site |-> n, source |-> <<"slm", n>>,
          shape |-> o.resShape, elemBitWidth |-> o.elemBitWidth,
          result |-> <<"view", n>>],
         [kind |-> "gpu.subgroup_id", site |-> n] >>
      \o (IF fold
            THEN << [kind |-> "memref.transpose", site |-> n,
                     source |-> <<"view", n>>, permutation |-> <<1, 0>>,
                     result |-> stView] >>
            ELSE << >>)
      \o << [kind |-> "init_tile", site |-> n, source |-> stView,
             shape |-> srcMapAttr(o).sgData,
             order |-> IF fold THEN <<0, 1>> ELSE <<1, 0>>, memorySpace |-> 3,
             wgMap |-> FALSE, offsets |-> getOffsets(srcMapAttr(o), <<0, 0>>),
             result |-> <<"stTile", n>>],
            [kind |-> "store_tile", site |-> n,
             value |-> IF fold THEN o.transposeOperand ELSE o.source,
             tile |-> <<"stTile", n>>, buffer |-> <<"slm", n>>],
            [kind |-> "gpu.barrier", site |-> n],
            [kind |-> "init_tile", site |-> n, source |-> <<"view", n>>,
             shape |-> dstMapAttr(o).sgData, order |-> <<1, 0>>,
             memorySpace |-> 3, wgMap |-> FALSE,
             offsets |-> getOffsets(dstMapAttr(o), o.resShape),
             result |-> <<"ldTile", n>>],
            [kind |-> "load_tile", site |-> n, tile |-> <<"ldTile", n>>,
             buffer |-> <<"slm", n>>, shape |-> dstMapAttr(o).sgData,
             result |-> <<"ld", n>>] >>

WGToSGXeTileConvertLayout(o, n) ==
  IF o.rank # 2
    THEN [status |-> "failure", newOps |-> <<>>, replacement |-> <<>>,
          erased |-> {}]
  ELSE IF ConvertLayoutDerefsNull(o)
    THEN [status |-> "abort", newOps |-> <<>>, replacement |-> <<>>,
          erased |-> {}]
  ELSE IF ~srcMapAttr(o).present \/ ~dstMapAttr(o).present
    THEN [status |-> "failure", newOps |-> <<>>, replacement |-> <<>>,
          erased |-> {}]
  ELSE [status |-> "success", newOps |-> ConvertLayoutNewOps(o, n),
        replacement |-> << <<"ld", n>> >>,
        erased |-> IF isOneUseTranspose(o) THEN {o.defOpName} ELSE {}]

(***************************************************************************)
(* SpecConvert: the convert_layout ops of a function, rewritten one after  *)
(* another in program order until one cannot be.                           *)
(***************************************************************************)
MaxSites == 2       \* convert_layout ops in the function at most

ConvMaps == {NoMap, WgMap(<<2, 2>>, <<2, 2>>), WgMap(<<4, 1>>, <<1, 4>>)}

ConvertLayoutSite(rank, defOp, uses, defOpMap, tDef, tMap, src, dst) ==
  [kind |-> "convert_layout", rank |-> rank, resShape |-> <<4, 4>>,
   elemBitWidth |-> 32, defOp |-> defOp, defOpName |-> "transposeOp",
   defOpUses |-> uses, defOpMap |-> defOpMap,
   transposeOperandDef |-> tDef, transposeOperandMap |-> tMap,
   transposeOperand |-> "remappedTransposeOperand",
   source |-> "remappedSource", wgMapSource |-> src, wgMapResult |-> dst,
   operands |-> <<>>, type |-> "vector"]

ConvertLayoutOps ==
  { ConvertLayoutSite(3, "other", 1, NoMap, "op", NoMap, NoMap, NoMap),
    ConvertLayoutSite(2, "null", 0, NoMap, "op", NoMap,
                      WgMap(<<2, 2>>, <<2, 2>>), WgMap(<<4, 1>>, <<1, 4>>)) }
  \cup
  { ConvertLayoutSite(2, "transpose", 1, dm, "null", NoMap, src, dst) :
      dm \in {NoMap}, src \in {WgMap(<<2, 2>>, <<2, 2>>)},
      dst \in {WgMap(<<4, 1>>, <<1, 4>>)} }
  \cup
  { ConvertLayoutSite(2, "transpose", 1, NoMap, "op", tm, src, dst) :
      tm \in ConvMaps, src \in {NoMap, WgMap(<<2, 2>>, <<2, 2>>)},
      dst \in {NoMap, WgMap(<<4, 1>>, <<1, 4>>)} }
  \cup
  { ConvertLayoutSite(2, d, 2, dm, "op", NoMap, src, dst) :
      d \in {"transpose", "load_tile", "other"},
      dm \in {NoMap, WgMap(<<2, 2>>, <<2, 2>>)},
      src \in {NoMap, WgMap(<<1, 4>>, <<4, 1>>)},
      dst \in {NoMap, WgMap(<<4, 1>>, <<1, 4>>)} }

InitConvert ==
  /\ module \in SeqsUpTo(ConvertLayoutOps, MaxSites)
  /\ toConvert = <<>>
  /\ cursor = 0
  /\ created = <<>>
  /\ mapping = <<>>
  /\ pc = "pattern"
  /\ passResult = "none"
  /\ loadOps = <<>>
  /\ initOps = <<>>
  /\ op = <<>>
  /\ sgLayoutMap = <<>>
  /\ rewriter = Pending
  /\ sgRuns = <<>>

ConvertLayoutRewrite ==
  /\ pc = "pattern"
  /\ cursor < Len(module)
  /\ module[cursor + 1].kind = "convert_layout"
  /\ rewriter.status \in {"pending", "success"}
  /\ LET out == WGToSGXeTileConvertLayout(module[cursor + 1], cursor + 1)
     IN  /\ rewriter' = out
         /\ created' = created \o out.newOps
         /\ mapping' = Append(mapping, out.replacement)
  /\ op' = module[cursor + 1]
  /\ cursor' = cursor + 1
  /\ UNCHANGED <<sgLayoutMap, sgRuns, module, toConvert, pc, passResult,
                 loadOps, initOps>>

NextConvert == ConvertLayoutRewrite

SpecConvert == InitConvert /\ [][NextConvert]_vars

(***************************************************************************)
(* analyzeTransposeOps (lines 1177-1260): the backward trace through the   *)
(* def-use graph and the marks it leaves in sgLayoutMap.                   *)
(*                                                                         *)
(* An operation of the analysed module is a record                         *)
(*   [kind, operands, type]                                                *)
(* with operands a sequence of values and type the type of its result.     *)
(* A value is the result of the operation at an index of the module, the   *)
(* loop-carried block argument or the induction variable of the scf.for at *)
(* an index, or an argument of the function.  An scf.for carries one       *)
(* value; its bounds and step are constants and are left out.              *)
(***************************************************************************)
OpResult(i, ty) == [def |-> "op", idx |-> i, type |-> ty]
IterArg(i, ty) == [def |-> "iter_arg", idx |-> i, type |-> ty]
InductionVar(i) == [def |-> "induction_var", idx |-> i, type |-> "index"]
FuncArg == [def |-> "func_arg", idx |-> 0, type |-> "vector"]

IsBlockArgument(v) == v.def \in {"iter_arg", "induction_var", "func_arg"}

ColMajor == <<0, 1>>

\* Line 1179: follow loop-carried block arguments to the value that entered
\* the loop; an induction variable or a function argument ends the search.
RECURSIVE getPreLoopValue(_, _)
getPreLoopValue(m, val) ==
  IF val.def = "iter_arg"
    THEN getPreLoopValue(m, m[val.idx].operands[1])
    ELSE val

\* Line 1205: the worklist loop of findOps<OpType>.  pop_back takes the last
\* value; the visited set holds the popped value, not the pre-loop value it
\* resolves to.  Besides matchedOps the model keeps, in order, the values
\* whose defining operation the loop went through (lines 1216-1220).
RECURSIVE findOpsLoop(_, _, _, _, _, _)
findOpsLoop(m, kind, worklist, visited, matchedOps, expanded) ==
  IF worklist = <<>>
    THEN [matchedOps |-> matchedOps, expanded |-> expanded,
          visited |-> visited]
  ELSE
    LET popped == worklist[Len(worklist)]
        rest == SubSeq(worklist, 1, Len(worklist) - 1)
        current == IF IsBlockArgument(popped)
                     THEN getPreLoopValue(m, popped) ELSE popped
    IN  IF popped \in visited
          THEN findOpsLoop(m, kind, rest, visited, matchedOps, expanded)
          ELSE IF current.def = "op"
            THEN findOpsLoop(m, kind, rest \o m[current.idx].operands,
                   visited \cup {popped},
                   IF m[current.idx].kind = kind
                     THEN Append(matchedOps, current.idx) ELSE matchedOps,
                   Append(expanded, current))
            ELSE findOpsLoop(m, kind, rest, visited \cup {popped},
                             matchedOps, expanded)

\* The whole run of findOps<OpType>(val).
findOpsRun(m, kind, val) == findOpsLoop(m, kind, <<val>>, {}, <<>>, <<>>)

findOps(m, kind, val) == findOpsRun(m, kind, val).matchedOps

ResultOf(m, i) == OpResult(i, m[i].type)

MarkErased(map, v) == [x \in DOMAIN map \ {v} |-> map[x]]
MarkToggled_AlwaysInsert(map, v) == (v :> ColMajor) @@ map
\* Lines 1250-1255: erase the entry when present, insert {0,1} otherwise.
MarkToggled(map, v) ==
  IF v \in DOMAIN map THEN MarkErased(map, v) ELSE (v :> ColMajor) @@ map

\* Line 1246: sgLayoutMap[transposeOp->getResult(0)] = {0, 1}.
MarkSet(map, v) == (v :> ColMajor) @@ [x \in DOMAIN map \ {v} |-> map[x]]

\* The values an operation appended to m can use.
AvailableValues(m) ==
  {ResultOf(m, i) : i \in DOMAIN m}
    \cup {IterArg(i, m[i].type) : i \in {j \in DOMAIN m : m[j].kind = "for"}}
    \cup {InductionVar(i) : i \in {j \in DOMAIN m : m[j].kind = "for"}}

\* Program order of the values of a module.
ValueRank(v) == 2 * v.idx + (IF v.def = "op" THEN 0 ELSE 1)

\* The operations that can follow m: tile and vector operations over the
\* values of matching type.  A transpose may also read the function's
\* vector argument, and an init_tile may take a dynamic offset.
AnalysisOpsAfter(m) ==
  LET avail == AvailableValues(m)
      tiles == {v \in avail : v.type = "tile"}
      vectors == {v \in avail : v.type = "vector"}
      indices == {v \in avail : v.type = "index"}
  IN  {[kind |-> "init_tile", operands |-> <<>>, type |-> "tile"]}
        \cup {[kind |-> "init_tile", operands |-> <<x>>, type |-> "tile"] :
                x \in indices}
        \cup {[kind |-> "load_tile", operands |-> <<t>>, type |-> "vector"] :
                t \in tiles}
        \cup {[kind |-> "transpose", operands |-> <<v>>, type |-> "vector"] :
                v \in vectors \cup {FuncArg}}
        \cup {[kind |-> "addf", operands |-> <<p[1], p[2]>>,
               type |-> "vector"] :
                p \in {q \in vectors \X vectors :
                         ValueRank(q[1]) <= ValueRank(q[2])}}
        \cup {[kind |-> "for", operands |-> <<x>>, type |-> x.type] :
                x \in tiles \cup vectors}

MaxOps == 4

\* The modules of at most n operations.
RECURSIVE AnalysisModulesUpTo(_)
AnalysisModulesUpTo(n) ==
  IF n = 0 THEN {<<>>}
  ELSE LET shorter == AnalysisModulesUpTo(n - 1)
       IN  shorter \cup UNION {{Append(m, o) : o \in AnalysisOpsAfter(m)} :
                                 m \in {k \in shorter : Len(k) = n - 1}}

\* Modules in which one init_tile is found more than twice, or found
\* twice from one transpose: three transposes of one loaded vector; two
\* loads of one tile added and transposed; a loaded vector added to the
\* loop-carried argument it initialises, then transposed.
SharedInitModules ==
  LET init == [kind |-> "init_tile", operands |-> <<>>, type |-> "tile"]
      load(t) == [kind |-> "load_tile", operands |-> <<t>>,
                  type |-> "vector"]
      transpose(v) == [kind |-> "transpose", operands |-> <<v>>,
                       type |-> "vector"]
      addf(a, b) == [kind |-> "addf", operands |-> <<a, b>>,
                     type |-> "vector"]
      for(x) == [kind |-> "for", operands |-> <<x>>, type |-> x.type]
      tile == OpResult(1, "tile")
      vec(i) == OpResult(i, "vector")
  IN  { <<init, load(tile), transpose(vec(2)), transpose(vec(2)),
          transpose(vec(2))>>,
        <<init, load(tile), load(tile), addf(vec(2), vec(3)),
          transpose(vec(4))>>,
        <<init, load(tile), for(vec(2)), addf(vec(2), IterArg(3, "vector")),
          transpose(vec(4))>>,
        <<init, for(tile), for(IterArg(2, "tile")),
          load(IterArg(3, "tile")), transpose(vec(4))>> }

\* The modules of the model.
AnalysisModules(n) == AnalysisModulesUpTo(n) \cup SharedInitModules

\* analyzeTransposeOps starts on a module with the pass's store as
\* constructed (empty).
InitAnalysis ==
  /\ module \in AnalysisModules(MaxOps)
  /\ toConvert = <<>>
  /\ cursor = 0
  /\ pc = "walk"
  /\ sgLayoutMap = <<>>
  /\ loadOps = <<>>
  /\ initOps = <<>>
  /\ created = <<>>
  /\ mapping = <<>>
  /\ passResult = "none"
  /\ op = <<>>
  /\ rewriter = Pending
  /\ sgRuns = <<>>

\* The transposes the walk has not visited yet.
TransposesAfter(m, c) == {t \in DOMAIN m : t > c /\ m[t].kind = "transpose"}

NextTranspose(m, c) ==
  CHOOSE t \in TransposesAfter(m, c) : \A u \in TransposesAfter(m, c) : t <= u

\* Lines 1230-1236: the walk reaches the next transpose and collects the
\* load_tile ops behind its input; with none it skips the transpose.
VisitTranspose ==
  /\ pc = "walk"
  /\ TransposesAfter(module, cursor) # {}
  /\ LET t == NextTranspose(module, cursor)
         found == findOps(module, "load_tile", module[t].operands[1])
     IN  /\ cursor' = t
         /\ loadOps' = found
         /\ pc' = IF found = <<>> THEN "walk" ELSE "loads"
  /\ UNCHANGED <<sgLayoutMap, initOps, module, toConvert,
                 created, mapping, passResult>>
  /\ UNCHANGED ruleVars

\* Lines 1238-1246: one iteration of the loop over loadOps, up to the loop
\* over initOps; at the end of loadOps the callback returns advance().
VisitLoadOp ==
  /\ pc = "loads"
  /\ IF loadOps = <<>>
       THEN /\ pc' = "walk"
            /\ UNCHANGED <<sgLayoutMap, loadOps, initOps>>
       ELSE LET loadSource == module[Head(loadOps)].operands[1]
                found == findOps(module, "init_tile", loadSource)
            IN  /\ loadOps' = Tail(loadOps)
                /\ IF found = <<>>
                     THEN UNCHANGED <<sgLayoutMap, initOps, pc>>
                     ELSE /\ sgLayoutMap' =
                               MarkSet(sgLayoutMap, ResultOf(module, cursor))
                          /\ initOps' = found
                          /\ pc' = "inits"
  /\ UNCHANGED <<module, toConvert, cursor, created, mapping, passResult>>
  /\ UNCHANGED ruleVars

\* Lines 1248-1256: one iteration of the loop over initOps.
VisitInitOp ==
  /\ pc = "inits"
  /\ IF initOps = <<>>
       THEN /\ pc' = "loads"
            /\ UNCHANGED <<sgLayoutMap, initOps>>
       ELSE /\ sgLayoutMap' =
                 MarkToggled(sgLayoutMap, ResultOf(module, Head(initOps)))
            /\ initOps' = Tail(initOps)
            /\ pc' = "inits"
  /\ UNCHANGED <<module, toConvert,
                 cursor, loadOps, created, mapping, passResult>>
  /\ UNCHANGED ruleVars

\* Line 1259: the walk has no transpose left.
EndWalk ==
  /\ pc = "walk"
  /\ TransposesAfter(module, cursor) = {}
  /\ pc' = "analyzed"
  /\ cursor' = Len(module)
  /\ UNCHANGED <<sgLayoutMap, loadOps, initOps, module, toConvert,
                 created, mapping,
                 passResult>>
  /\ UNCHANGED ruleVars

NextAnalysis == VisitTranspose \/ VisitLoadOp \/ VisitInitOp \/ EndWalk

SpecAnalysis == InitAnalysis /\ [][NextAnalysis]_vars

(***************************************************************************)
(* WGToSGLoadTileOpPattern and WGToSGVectorTranspose.                      *)
(***************************************************************************)
\* An attribute that is null when the operation does not carry it.
Attr(o, name) == name \in DOMAIN o /\ o[name]

\* Lines 243-262: one load_tile per remapped source, of the source's shape.
WGToSGLoadTileOpPattern(o, sources) ==
  IF o.rank # 2
    THEN [status |-> "failure", newOps |-> <<>>, replacement |-> <<>>]
    ELSE LET loads == [k \in 1..Len(sources) |->
                         [kind |-> "load_tile", source |-> sources[k],
                          shape |-> sources[k].shape,
                          sourceWgMap |-> Attr(sources[k], "wgMap")]]
         IN  [status |-> "success", newOps |-> loads, replacement |-> loads]

\* Lines 555-584: a mapped transpose is rewritten only when its result is
\* in sgLayoutMap; the new transpose has shape sgData and no map.
WGToSGVectorTranspose(o, map, vector) ==
  IF o.rank # 2 \/ ~Attr(o, "map") \/ o.result \notin DOMAIN map
    THEN [status |-> "failure", newOps |-> <<>>, replacement |-> <<>>]
    ELSE LET newOp == [kind |-> "transpose", shape |-> o.sgData,
                       vector |-> vector, permutation |-> o.permutation,
                       map |-> FALSE]
         IN  [status |-> "success", newOps |-> <<newOp>>,
              replacement |-> <<newOp>>]

(***************************************************************************)
(* SpecLoopLegality: the legality callbacks of scf.for and scf.yield       *)
(* (lines 1395-1420) and hasMap (lines 1159-1174), applied to one loop     *)
(* operation.  A loop-carried value is its type, the workgroup map of its  *)
(* tile type, and its defining operation, which is null for a block        *)
(* argument.                                                               *)
(***************************************************************************)
NullOperation == [kind |-> "null"]

\* What a build does with llvm::isa<LoadTileOp>(op) for a null op: the
\* assertion "isa<> used on a null pointer" aborts, or the null pointer is
\* read and hasMap goes on to either answer.
NullOperationOutcomes == {"assert", "true", "false"}

\* Lines 1159-1174.
hasMap(o) ==
  IF o.kind = "null" THEN NullOperationOutcomes
  ELSE IF o.kind = "load_tile"
       THEN {IF Attr(o, "sourceWgMap") THEN "true" ELSE "false"}
       ELSE {IF ~Attr(o, "map") /\ ~Attr(o, "wgMapA") THEN "false"
             ELSE "true"}

\* The loop of lines 1397-1404 and 1411-1418 from value i on: the verdicts
\* the callback can come to.
RECURSIVE LoopCarriedIsLegalFrom(_, _)
LoopCarriedIsLegalFrom(args, i) ==
  IF i > Len(args) THEN {"legal"}
  ELSE LET arg == args[i]
       IN  IF arg.type = "tile" /\ arg.wgMap THEN {"illegal"}
           ELSE IF arg.type = "vector"
                THEN UNION { CASE h = "assert" -> {"assert"}
                               [] h = "true" -> {"illegal"}
                               [] OTHER -> LoopCarriedIsLegalFrom(args, i + 1) :
                             h \in hasMap(arg.definingOp) }
                ELSE LoopCarriedIsLegalFrom(args, i + 1)

\* Lines 1395-1406.
SCFForIsLegal(o) == LoopCarriedIsLegalFrom(o.initArgs, 1)
\* Lines 1408-1420: getResults() of scf.yield is its operand list.
SCFYieldIsLegal(o) == LoopCarriedIsLegalFrom(o.results, 1)

LoopCarried(type, wgMap, definingOp) ==
  [type |-> type, wgMap |-> wgMap, definingOp |-> definingOp]

\* The loop-carried values of the model: tiles with and without a
\* workgroup map, vectors produced by a load_tile, by an operation with or
\* without a map attribute, by a tile_mma with wg_map_a, block arguments of
\* tile and of vector type, and a scalar.
LoopCarriedValues ==
  { LoopCarried("tile", w, [kind |-> "init_tile", wgMap |-> w]) :
      w \in BOOLEAN }
  \cup { LoopCarried("tile", TRUE, NullOperation) }
  \cup { LoopCarried("vector", FALSE,
                     [kind |-> "load_tile", sourceWgMap |-> w]) :
           w \in BOOLEAN }
  \cup { LoopCarried("vector", FALSE, [kind |-> "addf", map |-> w]) :
           w \in BOOLEAN }
  \cup { LoopCarried("vector", FALSE,
                     [kind |-> "tile_mma", wgMapA |-> TRUE]),
         LoopCarried("vector", FALSE, NullOperation),
         LoopCarried("index", FALSE, [kind |-> "constant"]) }

LoopOps ==
  { [kind |-> "for", initArgs |-> a] :
      a \in SeqsUpTo(LoopCarriedValues, MaxIterArgs) }
  \cup { [kind |-> "yield", results |-> a] :
           a \in SeqsUpTo(LoopCarriedValues, MaxIterArgs) }

InitLoopLegality ==
  /\ op \in LoopOps
  /\ sgLayoutMap = <<>>
  /\ rewriter = Pending
  /\ sgRuns = <<>>
  /\ NoModule

\* The conversion target asks whether the scf.for is legal.
ForLegalityCallback ==
  /\ op.kind = "for"
  /\ rewriter.status = "pending"
  /\ \E verdict \in SCFForIsLegal(op) :
       rewriter' = [Pending EXCEPT !.status = verdict]
  /\ UNCHANGED <<op, sgLayoutMap, sgRuns>>
  /\ UNCHANGED passVars

\* The conversion target asks whether the scf.yield is legal.
YieldLegalityCallback ==
  /\ op.kind = "yield"
  /\ rewriter.status = "pending"
  /\ \E verdict \in SCFYieldIsLegal(op) :
       rewriter' = [Pending EXCEPT !.status = verdict]
  /\ UNCHANGED <<op, sgLayoutMap, sgRuns>>
  /\ UNCHANGED passVars

NextLoopLegality == ForLegalityCallback \/ YieldLegalityCallback

SpecLoopLegality == InitLoopLegality /\ [][NextLoopLegality]_vars

(***************************************************************************)
(* The conversion target of runOnOperation (lines 1337-1456).              *)
(***************************************************************************)
InitTileIsLegal_Always(o) == TRUE
\* Lines 1337-1343.
InitTileIsLegal(o) == ~Attr(o, "wgMap")
\* Lines 1345-1351.
LoadTileIsLegal(o) == ~Attr(o, "sourceWgMap")
\* Lines 1361-1369.
TileMMAIsLegal(o) == ~Attr(o, "wgMapA")
\* Lines 1371-1377.
StoreTileIsLegal(o) == ~Attr(o, "tileWgMap")
\* Lines 1422-1439.
VectorOpIsLegal(o) == ~Attr(o, "map")

\* convert_layout is illegal (line 1454); an operation of no registered
\* kind is legal (line 1456).
isLegal(o) ==
  CASE o.kind = "init_tile" -> InitTileIsLegal(o)
    [] o.kind = "load_tile" -> LoadTileIsLegal(o)
    [] o.kind = "tile_mma" -> TileMMAIsLegal(o)
    [] o.kind = "store_tile" -> StoreTileIsLegal(o)
    [] o.kind = "transpose" -> VectorOpIsLegal(o)
    [] o.kind = "for" -> SCFForIsLegal(o) = {"legal"}
    [] o.kind = "convert_layout" -> FALSE
    [] OTHER -> TRUE

(***************************************************************************)
(* SpecPass: XeTileWgToSgPass::runOnOperation (lines 1320-1462) on a       *)
(* module of one function.  isSupportedModule and applyPartialConversion   *)
(* are not part of this source file; they are modelled from their          *)
(* documented behaviour.                                                   *)
(***************************************************************************)
\* The function: its type uses memrefs, or uses the tile type directly.
FuncOp(signature) ==
  [kind |-> "func", operands |-> <<>>, type |-> "none",
   signature |-> signature]

\* An init_tile at index i: a 4x4 tile, with or without a workgroup map of
\* sgLayout [2,2] and sgData [2,2].
PassInitTile(i, wgMap, order) ==
  [kind |-> "init_tile", operands |-> <<>>, type |-> "tile",
   result |-> OpResult(i, "tile"), wgMap |-> wgMap, shape |-> <<4, 4>>,
   sgLayout |-> <<2, 2>>, sgData |-> <<2, 2>>, order |-> order,
   scatter |-> FALSE, memorySpace |-> "default", indices |-> "indices",
   sourceIsMemRef |-> TRUE, offsets |-> <<0, 0>>]

\* The latest operation of m whose result has type ty, 0 when there is none.
LatestOfType(m, ty) ==
  LET S == {i \in DOMAIN m : m[i].type = ty}
  IN  IF S = {} THEN 0 ELSE CHOOSE i \in S : \A j \in S : j <= i

\* An operation of no registered kind whose result is a 4x4 tile with a
\* workgroup map: the target takes it as legal (line 1456) and no pattern
\* replaces it.
PassOpaqueTile(i) ==
  [kind |-> "opaque", operands |-> <<>>, type |-> "tile",
   result |-> OpResult(i, "tile"), wgMap |-> TRUE, shape |-> <<4, 4>>,
   sgLayout |-> <<2, 2>>, sgData |-> <<2, 2>>]

\* An scf.for that carries the tile m[t] defines.
PassFor(m, t) ==
  [kind |-> "for", operands |-> <<ResultOf(m, t)>>, type |-> "tile",
   inductionVarType |-> "index",
   initArgs |-> <<LoopCarried("tile", Attr(m[t], "wgMap"), m[t])>>]

\* A load_tile of the latest tile.
PassLoadTile(m, t) ==
  [kind |-> "load_tile", operands |-> <<ResultOf(m, t)>>, type |-> "vector",
   rank |-> 2, sourceWgMap |-> Attr(m[t], "wgMap")]

\* A vector.transpose at index i of the latest vector, or of the function's
\* vector argument; map says whether it carries a "map" attribute.
PassTranspose(m, i, map) ==
  [kind |-> "transpose",
   operands |-> <<IF LatestOfType(m, "vector") = 0 THEN FuncArg
                  ELSE ResultOf(m, LatestOfType(m, "vector"))>>,
   type |-> "vector", result |-> OpResult(i, "vector"), rank |-> 2,
   map |-> map, sgLayout |-> <<2, 2>>, sgData |-> <<2, 2>>,
   permutation |-> <<1, 0>>]

\* A tile_mma over operands that are decomposed into one value each.
PassTileMMA(wgMapA, rank) ==
  [kind |-> "tile_mma", operands |-> <<>>, type |-> "vector", rank |-> rank,
   hasC |-> FALSE, A |-> <<[id |-> <<"A", 1>>, shape |-> <<8, 4>>]>>,
   B |-> <<[id |-> <<"B", 1>>, shape |-> <<4, 32>>]>>, C |-> <<>>,
   wgMapA |-> wgMapA]

\* convert_layout ops: one the pattern rewrites, one of rank 3, one whose
\* result map is missing, one whose operand is a block argument.
PassConvertLayouts ==
  { ConvertLayoutSite(2, "other", 2, NoMap, "op", NoMap,
                      WgMap(<<2, 2>>, <<2, 2>>), WgMap(<<4, 1>>, <<1, 4>>)),
    ConvertLayoutSite(3, "other", 1, NoMap, "op", NoMap, NoMap, NoMap),
    ConvertLayoutSite(2, "other", 2, NoMap, "op", NoMap,
                      WgMap(<<2, 2>>, <<2, 2>>), NoMap),
    ConvertLayoutSite(2, "null", 0, NoMap, "op", NoMap,
                      WgMap(<<2, 2>>, <<2, 2>>), WgMap(<<4, 1>>, <<1, 4>>)) }

\* The operations that can follow m in the function body.
PassOpsAfter(m) ==
  LET i == Len(m) + 1
      t == LatestOfType(m, "tile")
  IN  {PassInitTile(i, FALSE, <<1, 0>>), PassInitTile(i, TRUE, <<1, 0>>),
       PassInitTile(i, TRUE, <<0, 1>>)}
        \cup {PassOpaqueTile(i)}
        \cup {PassLoadTile(m, t) : x \in {t} \ {0}}
        \cup {PassTranspose(m, i, map) : map \in BOOLEAN}
        \cup {PassTileMMA(TRUE, 2)}
        \cup PassConvertLayouts

MaxPassOps == 3     \* operations in the function body at most

\* The modules whose function body has at most n operations.
RECURSIVE PassModulesUpTo(_)
PassModulesUpTo(n) ==
  IF n = 0 THEN {<<FuncOp(s)>> : s \in {"memref", "tile"}}
  ELSE LET shorter == PassModulesUpTo(n - 1)
       IN  shorter \cup UNION {{Append(m, o) : o \in PassOpsAfter(m)} :
                                 m \in {k \in shorter : Len(k) = n}}

\* A convert_layout of the result of m[d], with or without the
\* wg_map_source and wg_map_result attributes.
PassConvertLayoutOf(m, d, src, dst) ==
  [kind |-> "convert_layout", operands |-> <<ResultOf(m, d)>>,
   type |-> "vector", rank |-> 2, resShape |-> <<4, 4>>,
   elemBitWidth |-> 32, wgMapSource |-> src, wgMapResult |-> dst]

\* The function of the source's example (lines 610-616): an init_tile, a
\* load_tile of it, a transpose of the loaded vector and a convert_layout
\* of the transposed vector; with twice, a second convert_layout of the
\* same transposed vector.
TransposeFoldModule(signature, wgMap, map, src, dst, twice) ==
  LET m2 == <<FuncOp(signature), PassInitTile(2, wgMap, <<1, 0>>)>>
      m3 == Append(m2, PassLoadTile(m2, 2))
      m4 == Append(m3, PassTranspose(m3, 4, map))
      m5 == Append(m4, PassConvertLayoutOf(m4, 4, src, dst))
  IN  IF twice THEN Append(m5, PassConvertLayoutOf(m5, 4, src, dst)) ELSE m5

TransposeFoldModules ==
  {TransposeFoldModule(signature, wgMap, map, src, dst, twice) :
     signature \in {"memref", "tile"}, wgMap \in BOOLEAN, map \in BOOLEAN,
     src \in {NoMap, WgMap(<<2, 2>>, <<2, 2>>)},
     dst \in {NoMap, WgMap(<<4, 1>>, <<1, 4>>)}, twice \in BOOLEAN}

PassModules(n) == PassModulesUpTo(n) \cup TransposeFoldModules

\* A function type that uses the tile type directly is not supported.
isSupportedModule(m) ==
  \A i \in DOMAIN m : m[i].kind = "func" => m[i].signature # "tile"

RejectsModule_Never(m) == FALSE
\* Line 1325.
RejectsModule(m) == ~isSupportedModule(m)

PassResultOf_AlwaysSuccess(conversionFailed) == "success"
\* Lines 1459-1461: signalPassFailure when the conversion failed.
PassResultOf(conversionFailed) ==
  IF conversionFailed THEN "failure" ELSE "success"

\* The values the conversion recorded for v: the replacement of the
\* operation that defines it; when that operation was kept, its own result
\* (written as the operation), or v itself for a block argument.
Remapped(m, mp, v) ==
  IF v.def # "op" THEN <<v>>
  ELSE IF v.idx \in DOMAIN mp THEN mp[v.idx]
  ELSE <<m[v.idx]>>

Outcome(status, newOps, replacement) ==
  [status |-> status, newOps |-> newOps, replacement |-> replacement]

\* getWorkGroupMapAttr (lines 651-657) of the result of m[j]: the workgroup
\* map of the source tile type for a load_tile, the "map" attribute for
\* any other operation.
getWorkGroupMapAttr(m, j) ==
  IF m[j].kind = "load_tile"
    THEN LET tile == m[m[j].operands[1].idx]
         IN  IF Attr(tile, "wgMap") THEN WgMap(tile.sgLayout, tile.sgData)
             ELSE NoMap
    ELSE IF Attr(m[j], "map") THEN WgMap(m[j].sgLayout, m[j].sgData)
    ELSE NoMap

\* Value::hasOneUse and friends: the uses of v among the operands of m.
UsesOf(m, v) ==
  {u \in (DOMAIN m) \X (1..2) :
     u[2] \in DOMAIN m[u[1]].operands /\ m[u[1]].operands[u[2]] = v}

\* Lines 640-661 for the convert_layout at m[i]: what the pattern reads of
\* the operation that defines its source, and of the operand of that
\* operation when it is a transpose.
ConvertLayoutSiteOf(m, mp, i) ==
  IF m[i].operands = <<>> THEN m[i]
  ELSE
    LET src == m[i].operands[1]
        d == src.idx
        isTranspose == src.def = "op" /\ m[d].kind = "transpose"
        t == m[d].operands[1]
    IN  [kind |-> "convert_layout", rank |-> m[i].rank,
         resShape |-> m[i].resShape, elemBitWidth |-> m[i].elemBitWidth,
         defOp |-> IF src.def # "op" THEN "null"
                   ELSE IF m[d].kind \in {"transpose", "load_tile"}
                     THEN m[d].kind
                   ELSE "other",
         defOpName |-> d,
         defOpUses |-> Cardinality(UsesOf(m, src)),
         defOpMap |-> IF src.def = "op" THEN getWorkGroupMapAttr(m, d)
                      ELSE NoMap,
         transposeOperandDef |->
           IF isTranspose /\ t.def # "op" THEN "null" ELSE "op",
         transposeOperandMap |->
           IF isTranspose /\ t.def = "op" THEN getWorkGroupMapAttr(m, t.idx)
           ELSE NoMap,
         transposeOperand |->
           IF isTranspose THEN Remapped(m, mp, t) ELSE <<>>,
         source |-> Remapped(m, mp, src),
         wgMapSource |-> m[i].wgMapSource,
         wgMapResult |-> m[i].wgMapResult,
         operands |-> m[i].operands, type |-> m[i].type]

\* populateXeTileWgToSgPatterns (lines 1262-1294): the pattern registered
\* for the kind of m[i], applied to m[i] with the remapped operands.  A
\* pattern that takes an OpAdaptor cannot receive an operand that was
\* replaced by several values; the driver stops with a fatal error.
ApplyPattern(m, i, map, mp, outOfRange) ==
  LET o == m[i]
  IN  CASE o.kind = "init_tile" -> WGToSGInitTileOpPattern(o, map)
        [] o.kind = "load_tile" ->
             WGToSGLoadTileOpPattern(o, Remapped(m, mp, o.operands[1]))
        [] o.kind = "tile_mma" -> WGToSGTileMMAOpPattern(o, outOfRange)
        [] o.kind = "transpose" ->
             LET vector == Remapped(m, mp, o.operands[1])
             IN  IF Len(vector) # 1 THEN Outcome("abort", <<>>, <<>>)
                 ELSE WGToSGVectorTranspose(o, map, vector[1])
        [] o.kind = "convert_layout" ->
             LET out == WGToSGXeTileConvertLayout(
                          ConvertLayoutSiteOf(m, mp, i), i)
             IN  IF o.operands = <<>>
                   THEN Outcome(out.status, out.newOps, out.replacement)
                 ELSE IF Len(Remapped(m, mp, o.operands[1])) # 1
                   THEN Outcome("abort", <<>>, <<>>)
                 ELSE out
        [] o.kind = "for" ->
             LET r == Remapped(m, mp, o.operands[1])
                 remappedInitArgs ==
                   << [k \in 1..Len(r) |->
                         LoopCarried("tile", Attr(r[k], "wgMap"), r[k])] >>
             IN  WGToSGSCFForOpPattern(
                   [o EXCEPT !.initArgs = remappedInitArgs])
        [] OTHER -> Outcome("failure", <<>>, <<>>)

\* rewriter.eraseOp: an erased operation has no replacement values; one
\* that was replaced before stays replaced.
RecordErased(mp, out) ==
  LET erased == IF "erased" \in DOMAIN out THEN out.erased ELSE {}
  IN  [j \in DOMAIN mp \cup erased |->
         IF j \in DOMAIN mp THEN mp[j] ELSE <<>>]

\* The order of the walk that collects the operations (func first, then
\* the body in program order).
WalkOrder(m) == [k \in 1..Len(m) |-> k]

InitPass ==
  /\ module \in PassModules(MaxPassOps)
  /\ toConvert = WalkOrder(module)
  /\ pc = "start"
  /\ cursor = 0
  /\ sgLayoutMap = <<>>
  /\ loadOps = <<>>
  /\ initOps = <<>>
  /\ created = <<>>
  /\ mapping = <<>>
  /\ passResult = "none"
  /\ op = <<>>
  /\ rewriter = Pending
  /\ sgRuns = <<>>

\* Lines 1325-1333: an unsupported module ends the pass with
\* signalPassFailure; otherwise analyzeTransposeOps starts.
CheckSupported ==
  /\ pc = "start"
  /\ IF RejectsModule(module)
       THEN /\ passResult' = "failure"
            /\ pc' = "done"
       ELSE /\ passResult' = passResult
            /\ pc' = "walk"
  /\ UNCHANGED <<sgLayoutMap, module, toConvert,
                 cursor, created, mapping, loadOps,
                 initOps>>
  /\ UNCHANGED ruleVars

\* Lines 1334-1460: the target and the patterns are set up and
\* applyPartialConversion starts at the first operation.
BeginConversion ==
  /\ pc = "analyzed"
  /\ pc' = "convert"
  /\ cursor' = 0
  /\ UNCHANGED <<sgLayoutMap, module, toConvert,
                 created, mapping, passResult, loadOps,
                 initOps>>
  /\ UNCHANGED ruleVars

\* applyPartialConversion on operation i: an operation that an earlier
\* rewrite erased is passed over and a legal operation is kept; an illegal
\* one is handed to its pattern.  The rewrite is recorded when the pattern
\* succeeds and everything it created is legal; otherwise the operation
\* cannot be legalized, the recorded rewrites are undone and the conversion
\* fails.  st holds rewriter, created, mapping and pc.
LegalizeStep(m, map, st, i, outOfRange) ==
  IF isLegal(m[i]) \/ (i \in DOMAIN st.mapping /\ st.mapping[i] = <<>>)
    THEN st
    ELSE
      LET out == ApplyPattern(m, i, map, st.mapping, outOfRange)
          legalized ==
            /\ out.status = "success"
            /\ \A k \in DOMAIN out.newOps : isLegal(out.newOps[k])
      IN  [rewriter |-> out,
           created |-> IF legalized THEN st.created \o out.newOps
                       ELSE IF out.status = "abort" THEN st.created
                       ELSE <<>>,
           mapping |-> IF legalized
                         THEN (i :> out.replacement)
                                @@ RecordErased(st.mapping, out)
                       ELSE IF out.status = "abort" THEN st.mapping
                       ELSE <<>>,
           pc |-> IF legalized THEN "convert"
                  ELSE IF out.status = "abort" THEN "aborted"
                  ELSE "conversion_failed"]

\* The driver takes the next operation of toConvert.
LegalizeOp ==
  /\ pc = "convert"
  /\ cursor < Len(toConvert)
  /\ cursor' = cursor + 1
  /\ op' = module[toConvert[cursor + 1]]
  /\ \E outOfRange \in OutOfRangeOutcomes :
       LET st == LegalizeStep(module, sgLayoutMap,
                   [rewriter |-> rewriter, created |-> created,
                    mapping |-> mapping, pc |-> pc],
                   toConvert[cursor + 1], outOfRange)
       IN  /\ rewriter' = st.rewriter
           /\ created' = st.created
           /\ mapping' = st.mapping
           /\ pc' = st.pc
  /\ UNCHANGED <<sgLayoutMap, sgRuns, module, toConvert, passResult, loadOps,
                 initOps>>

\* Every operation has been handled: the conversion succeeds.
ConversionDone ==
  /\ pc = "convert"
  /\ cursor = Len(toConvert)
  /\ pc' = "conversion_succeeded"
  /\ UNCHANGED <<sgLayoutMap, module, toConvert,
                 cursor, created, mapping, passResult,
                 loadOps, initOps>>
  /\ UNCHANGED ruleVars

\* Lines 1459-1461.
ReturnFromConversion ==
  /\ pc \in {"conversion_failed", "conversion_succeeded"}
  /\ passResult' = PassResultOf(pc = "conversion_failed")
  /\ pc' = "done"
  /\ UNCHANGED <<sgLayoutMap, module, toConvert,
                 cursor, created, mapping, loadOps,
                 initOps>>
  /\ UNCHANGED ruleVars

NextPass ==
  \/ CheckSupported
  \/ VisitTranspose
  \/ VisitLoadOp
  \/ VisitInitOp
  \/ EndWalk
  \/ BeginConversion
  \/ LegalizeOp
  \/ ConversionDone
  \/ ReturnFromConversion

SpecPass == InitPass /\ [][NextPass]_vars

\* The pass under the scheduling of a single thread of control: as long as
\* runOnOperation has a next step, it takes it.
SpecPassLive == SpecPass /\ WF_vars(NextPass)

(***************************************************************************)
(* SpecOrder: runOnOperation with the driver taking the operations of the  *)
(* function body in any order.  The function itself stays first.           *)
(***************************************************************************)
\* The function of the source's example, and an init_tile whose tile an
\* scf.for carries.
OrderModules ==
  { TransposeFoldModule("memref", wgMap, map, src, dst, FALSE) :
      wgMap \in BOOLEAN, map \in BOOLEAN,
      src \in {NoMap, WgMap(<<2, 2>>, <<2, 2>>)},
      dst \in {NoMap, WgMap(<<4, 1>>, <<1, 4>>)} }
  \cup
  { LET m2 == <<FuncOp("memref"), PassInitTile(2, wgMap, <<1, 0>>)>>
    IN  Append(m2, PassFor(m2, 2)) : wgMap \in BOOLEAN }

DriverOrders(m) == {f \in Permutations(1..Len(m)) : f[1] = 1}

InitOrder ==
  /\ module \in OrderModules
  /\ toConvert \in DriverOrders(module)
  /\ pc = "start"
  /\ cursor = 0
  /\ sgLayoutMap = <<>>
  /\ loadOps = <<>>
  /\ initOps = <<>>
  /\ created = <<>>
  /\ mapping = <<>>
  /\ passResult = "none"
  /\ op = <<>>
  /\ rewriter = Pending
  /\ sgRuns = <<>>

SpecOrder == InitOrder /\ [][NextPass]_vars

\* The conversion of m with the operations taken in the order ord, from
\* the k-th on: LegalizeStep after LegalizeStep until the conversion has
\* failed or ord is used up.
RECURSIVE ConvertInOrder(_, _, _, _, _)
ConvertInOrder(m, map, ord, k, st) ==
  IF k > Len(ord) \/ st.pc # "convert" THEN st
  ELSE ConvertInOrder(m, map, ord, k + 1,
                      LegalizeStep(m, map, st, ord[k], "assert"))

(***************************************************************************)
(* SpecSlm: one convert_layout is rewritten and the generated code is run  *)
(* by every subgroup of the workgroup, one operation at a time, in any     *)
(* interleaving.  The shared local memory buffer is one per workgroup; a   *)
(* subgroup leaves gpu.barrier once every subgroup has reached it.         *)
(*                                                                         *)
(* sgRuns is here the record                                               *)
(*   [next    : subgroup id -> position in created of its next operation,  *)
(*    slm     : position of the view -> what was stored there,             *)
(*    outside : the stores that fell outside the view,                     *)
(*    overrun : the stores that fell outside the allocated bytes,          *)
(*    stored  : subgroup id -> the tile its store_tile wrote,              *)
(*    loaded  : subgroup id -> the tile its load_tile read]                *)
(***************************************************************************)
SlmWorkgroup(o) ==
  0..(srcMapAttr(o).sgLayout[1] * srcMapAttr(o).sgLayout[2] - 1)

\* An offset of getOffsets for subgroup sgID: the index.mul of lines
\* 674-675 and the index.remu of lines 735-736.
EvalSlmOffset(e, sgID) ==
  LET offset == EvalSgId(e.sgId, sgID) * e.mul
  IN  IF e.wrap = 0 THEN offset ELSE RemUOp(offset, e.wrap)

\* The operation of prog that defines value v.
Producer(prog, v) ==
  prog[CHOOSE k \in DOMAIN prog :
         "result" \in DOMAIN prog[k] /\ prog[k].result = v]

\* Mutant: the transposed view addresses the buffer like the plain view.
ViewPosition_Plain(prog, view, i, j) == <<i, j>>

\* Element (i, j) of a view of the buffer as a position of the memref.view:
\* memref.transpose with the permutation (1, 0) swaps the two indices.
ViewPosition(prog, view, i, j) ==
  IF Producer(prog, view).kind = "memref.transpose" THEN <<j, i>>
  ELSE <<i, j>>

\* The elements of a tile and where they lie for subgroup sgID.
TileCells(prog, tile, sgID) ==
  LET x == EvalSlmOffset(tile.offsets.x, sgID)
      y == EvalSlmOffset(tile.offsets.y, sgID)
  IN  { [elem |-> <<r, c>>,
         pos |-> ViewPosition(prog, tile.source, x + r, y + c)] :
          r \in 0..(tile.shape[1] - 1), c \in 0..(tile.shape[2] - 1) }

ViewOf(prog) ==
  prog[CHOOSE k \in DOMAIN prog : prog[k].kind = "memref.view"]

AllocOf(prog) ==
  prog[CHOOSE k \in DOMAIN prog : prog[k].kind = "memref.alloc"]

ViewPositions(prog) ==
  (0..(ViewOf(prog).shape[1] - 1)) \X (0..(ViewOf(prog).shape[2] - 1))

\* The last byte of the buffer that element pos of the view occupies, the
\* elements lying row by row without padding.
LastByteOf(prog, pos) ==
  LET w == ViewOf(prog).elemBitWidth
      k == pos[1] * ViewOf(prog).shape[2] + pos[2]
  IN  ((k + 1) * w - 1) \div 8

Unwritten == [sg |-> -1, elem |-> <<0, 0>>]

\* What a subgroup has stored or loaded before it ran the operation.
NotRun == [tileOrigin |-> <<-1, -1>>, shape |-> <<0, 0>>, cells |-> {}]

\* The tile as subgroup sgID accesses it: its origin in the view it was
\* created on, its shape, and its elements with their positions.
TileAccess(prog, tile, sgID, cells) ==
  [tileOrigin |-> <<EvalSlmOffset(tile.offsets.x, sgID),
                    EvalSlmOffset(tile.offsets.y, sgID)>>,
   shape |-> tile.shape, cells |-> cells]

SlmStart(o, prog) ==
  [next |-> [s \in SlmWorkgroup(o) |-> 1],
   slm |-> [p \in ViewPositions(prog) |-> Unwritten],
   outside |-> {},
   overrun |-> {},
   stored |-> [s \in SlmWorkgroup(o) |-> NotRun],
   loaded |-> [s \in SlmWorkgroup(o) |-> NotRun]]

\* The layout conversions of the model: source map A, result map B, the
\* source map found on wg_map_source, on the producer of the source or, for
\* a one-use transpose, on the producer of the transpose's operand.
SlmSite(shape, A, B, via, bits) ==
  [ConvertLayoutSite(2,
      IF via = "transpose" THEN "transpose" ELSE "load_tile", 1,
      IF via = "producer" THEN A ELSE NoMap, "op",
      IF via = "transpose" THEN A ELSE NoMap,
      IF via = "attribute" THEN A ELSE NoMap, B)
   EXCEPT !.resShape = shape, !.elemBitWidth = bits]

ElemBitWidths == {1, 4, 8, 12, 16, 32, 64}

SlmSites ==
  { SlmSite(<<4, 4>>, A, B, via, 32) :
      A \in {WgMap(<<2, 2>>, <<2, 2>>), WgMap(<<4, 1>>, <<1, 4>>)},
      B \in {WgMap(<<1, 4>>, <<4, 1>>), WgMap(<<2, 2>>, <<4, 2>>)},
      via \in {"attribute", "producer", "transpose"} }
  \cup
  { SlmSite(<<2, 4>>, WgMap(<<2, 2>>, <<2, 1>>), WgMap(<<1, 4>>, <<2, 1>>),
            "transpose", 32),
    SlmSite(<<2, 4>>, WgMap(<<2, 2>>, <<1, 2>>), WgMap(<<1, 4>>, <<2, 1>>),
            "attribute", 32) }
  \cup
  { SlmSite(<<2, 2>>, WgMap(<<2, 1>>, <<1, 2>>), WgMap(<<1, 2>>, <<2, 1>>),
            "attribute", bits) : bits \in ElemBitWidths }
  \cup
  \* The source map can be read from three places at once: a transpose
  \* with one use or with two, or a load_tile, each with a map of its own,
  \* with or without wg_map_source.
  { ConvertLayoutSite(2, d[1], d[2], WgMap(<<1, 4>>, <<4, 1>>), "op",
                      WgMap(<<4, 1>>, <<1, 4>>), src,
                      WgMap(<<2, 2>>, <<2, 2>>)) :
      d \in {<<"transpose", 1>>, <<"transpose", 2>>, <<"load_tile", 1>>},
      src \in {NoMap, WgMap(<<2, 2>>, <<2, 2>>)} }

InitSlm ==
  /\ op \in SlmSites
  /\ sgLayoutMap = <<>>
  /\ rewriter = Pending
  /\ sgRuns = <<>>
  /\ NoModule

SlmRewrite ==
  /\ op.kind = "convert_layout"
  /\ rewriter.status = "pending"
  /\ LET out == WGToSGXeTileConvertLayout(op, 1)
     IN  /\ rewriter' = out
         /\ created' = out.newOps
         /\ sgRuns' = SlmStart(op, out.newOps)
  /\ UNCHANGED <<op, sgLayoutMap, module, toConvert,
                 cursor, mapping, pc, passResult,
                 loadOps, initOps>>

SlmNextOp(s) == created[sgRuns.next[s]]

SlmRunning(s) ==
  /\ op.kind = "convert_layout"
  /\ rewriter.status = "success"
  /\ s \in DOMAIN sgRuns.next
  /\ sgRuns.next[s] <= Len(created)

\* memref.alloc, memref.view, gpu.subgroup_id, memref.transpose, init_tile:
\* values of the subgroup, no access to the buffer.
SubgroupStep(s) ==
  /\ SlmRunning(s)
  /\ SlmNextOp(s).kind \notin {"store_tile", "gpu.barrier", "load_tile"}
  /\ sgRuns' = [sgRuns EXCEPT !.next[s] = @ + 1]
  /\ UNCHANGED <<op, sgLayoutMap, rewriter>>
  /\ UNCHANGED passVars

\* xetile.store_tile (line 724).
SubgroupStore(s) ==
  /\ SlmRunning(s)
  /\ SlmNextOp(s).kind = "store_tile"
  /\ LET tile == Producer(created, SlmNextOp(s).tile)
         cells == TileCells(created, tile, s)
         inside == {c \in cells : c.pos \in ViewPositions(created)}
     IN  sgRuns' =
           [sgRuns EXCEPT
              !.next[s] = @ + 1,
              !.stored[s] = TileAccess(created, tile, s, cells),
              !.slm = [p \in DOMAIN @ |->
                         IF \E c \in inside : c.pos = p
                           THEN [sg |-> s,
                                 elem |-> (CHOOSE c \in inside :
                                             c.pos = p).elem]
                           ELSE @[p]],
              !.outside = @ \cup {[sg |-> s, pos |-> c.pos] :
                                    c \in cells \ inside},
              !.overrun = @ \cup
                {[sg |-> s, pos |-> c.pos] :
                   c \in {d \in inside :
                            LastByteOf(created, d.pos)
                              >= AllocOf(created).sizeBytes}}]
  /\ UNCHANGED <<op, sgLayoutMap, rewriter>>
  /\ UNCHANGED passVars

\* gpu.barrier (line 728): passed once every subgroup stands at it or
\* behind it.
SubgroupBarrier(s) ==
  /\ SlmRunning(s)
  /\ SlmNextOp(s).kind = "gpu.barrier"
  /\ \A t \in DOMAIN sgRuns.next : sgRuns.next[t] >= sgRuns.next[s]
  /\ sgRuns' = [sgRuns EXCEPT !.next[s] = @ + 1]
  /\ UNCHANGED <<op, sgLayoutMap, rewriter>>
  /\ UNCHANGED passVars

\* xetile.load_tile (line 745).
SubgroupLoad(s) ==
  /\ SlmRunning(s)
  /\ SlmNextOp(s).kind = "load_tile"
  /\ LET tile == Producer(created, SlmNextOp(s).tile)
         cells == TileCells(created, tile, s)
     IN  sgRuns' =
           [sgRuns EXCEPT
              !.next[s] = @ + 1,
              !.loaded[s] =
                 TileAccess(created, tile, s,
                   {[elem |-> c.elem, pos |-> c.pos,
                     value |-> IF c.pos \in ViewPositions(created)
                                 THEN sgRuns.slm[c.pos] ELSE Unwritten] :
                      c \in cells})]
  /\ UNCHANGED <<op, sgLayoutMap, rewriter>>
  /\ UNCHANGED passVars

NextSlm ==
  \/ SlmRewrite
  \/ \E s \in SlmWorkgroup(op) :
       \/ SubgroupStep(s)
       \/ SubgroupStore(s)
       \/ SubgroupBarrier(s)
       \/ SubgroupLoad(s)

SpecSlm == InitSlm /\ [][NextSlm]_vars

(***************************************************************************)
(* SpecFanOut: the rewrites of load_tile, load_gather, store_tile,         *)
(* store_scatter, prefetch_tile and update_tile_offset, each applied to    *)
(* one operation whose operands the driver has already remapped to lists   *)
(* of subgroup-level values.                                               *)
(***************************************************************************)
Min(a, b) == IF a <= b THEN a ELSE b

\* Lines 268-291: one load_gather per (tile, mask) pair of llvm::zip, which
\* stops with the shorter list.
WGToSGLoadGatherOpPattern(o, sources, mask) ==
  IF o.rank # 2
    THEN [status |-> "failure", newOps |-> <<>>, replacement |-> <<>>]
    ELSE LET loads == [k \in 1..Min(Len(sources), Len(mask)) |->
                         [kind |-> "load_gather", source |-> sources[k],
                          mask |-> mask[k], shape |-> sources[k].shape]]
         IN  [status |-> "success", newOps |-> loads, replacement |-> loads]

\* list[i] of a ValueRange: past its end the assertion of operator[] aborts
\* or the read goes on with an undefined value.
RangeAt(list, i) == IF i <= Len(list) THEN list[i] ELSE Undefined

\* Lines 342-350: one store_tile per decomposed value, the i-th value to
\* newDstTiles[i]; the original is erased.
WGToSGStoreTileOpPattern(o, newValues, newDstTiles, outOfRange) ==
  IF Len(newValues) > Len(newDstTiles) /\ outOfRange = "assert"
    THEN [status |-> "abort", newOps |-> <<>>, replacement |-> <<>>,
          erased |-> FALSE]
    ELSE [status |-> "success",
          newOps |-> [i \in 1..Len(newValues) |->
                        [kind |-> "store_tile", value |-> newValues[i],
                         tile |-> RangeAt(newDstTiles, i)]],
          replacement |-> <<>>, erased |-> TRUE]

\* Lines 361-371: one store_scatter per decomposed value, with
\* newDstTiles[i] and mask[i]; the original is erased.
WGToSGStoreScatterOpPattern(o, newValues, newDstTiles, mask, outOfRange) ==
  IF /\ Len(newValues) > Min(Len(newDstTiles), Len(mask))
     /\ outOfRange = "assert"
    THEN [status |-> "abort", newOps |-> <<>>, replacement |-> <<>>,
          erased |-> FALSE]
    ELSE [status |-> "success",
          newOps |-> [i \in 1..Len(newValues) |->
                        [kind |-> "store_scatter", value |-> newValues[i],
                         tile |-> RangeAt(newDstTiles, i),
                         mask |-> RangeAt(mask, i)]],
          replacement |-> <<>>, erased |-> TRUE]

\* Lines 802-811: one prefetch_tile per tile handle; the original is erased.
WGToSGPrefetchOpPattern(o, tiles) ==
  [status |-> "success",
   newOps |-> [k \in 1..Len(tiles) |->
                 [kind |-> "prefetch_tile", tile |-> tiles[k]]],
   replacement |-> <<>>, erased |-> TRUE]

\* Lines 453-463: one update_tile_offset per tile handle, of the handle's
\* type, with the offsets and indices of the original.
WGToSGUpdateTileOffsetOpPattern(o, tiles) ==
  LET updates == [k \in 1..Len(tiles) |->
                    [kind |-> "update_tile_offset", tile |-> tiles[k],
                     shape |-> tiles[k].shape, offsetX |-> o.offsetX,
                     offsetY |-> o.offsetY, indices |-> o.indices]]
  IN  [status |-> "success", newOps |-> updates, replacement |-> updates]

\* The remapped lists: n tile handles of one reduced shape, n values, n
\* masks.
TileHandles(n, shape) ==
  [k \in 1..n |-> [id |-> <<"tile", k>>, shape |-> shape]]
DecomposedValues(n, shape) ==
  [k \in 1..n |-> [id |-> <<"value", k>>, shape |-> shape]]
DecomposedMasks(n) == [k \in 1..n |-> [id |-> <<"mask", k>>]]

ReducedShapes == {<<2, 2>>, <<1, 4>>}

FanOutOps ==
  { [kind |-> "load_tile", rank |-> rk, tiles |-> TileHandles(n, sh)] :
      rk \in {2, 3}, n \in 0..MaxTiles, sh \in ReducedShapes }
  \cup
  { [kind |-> "load_gather", rank |-> rk, tiles |-> TileHandles(n, sh),
     masks |-> DecomposedMasks(m)] :
      rk \in {2, 3}, n \in 0..MaxTiles, m \in 0..MaxTiles,
      sh \in ReducedShapes }
  \cup
  { [kind |-> "store_tile", values |-> DecomposedValues(v, sh),
     tiles |-> TileHandles(n, sh)] :
      v \in 0..MaxTiles, n \in 0..MaxTiles, sh \in ReducedShapes }
  \cup
  { [kind |-> "store_scatter", values |-> DecomposedValues(v, <<2, 2>>),
     tiles |-> TileHandles(n, <<2, 2>>), masks |-> DecomposedMasks(m)] :
      v \in 0..MaxTiles, n \in 0..MaxTiles, m \in 0..MaxTiles }
  \cup
  { [kind |-> "prefetch_tile", tiles |-> TileHandles(n, sh)] :
      n \in 0..MaxTiles, sh \in ReducedShapes }
  \cup
  { [kind |-> "update_tile_offset", tiles |-> TileHandles(n, sh),
     offsetX |-> "offsetX", offsetY |-> "offsetY", indices |-> "indices"] :
      n \in 0..MaxTiles, sh \in ReducedShapes }

InitFanOut ==
  /\ op \in FanOutOps
  /\ sgLayoutMap = <<>>
  /\ rewriter = Pending
  /\ sgRuns = <<>>
  /\ NoModule

LoadTileRewrite ==
  /\ op.kind = "load_tile"
  /\ rewriter.status = "pending"
  /\ rewriter' = WGToSGLoadTileOpPattern(op, op.tiles)
  /\ UNCHANGED <<op, sgLayoutMap, sgRuns>>
  /\ UNCHANGED passVars

LoadGatherRewrite ==
  /\ op.kind = "load_gather"
  /\ rewriter.status = "pending"
  /\ rewriter' = WGToSGLoadGatherOpPattern(op, op.tiles, op.masks)
  /\ UNCHANGED <<op, sgLayoutMap, sgRuns>>
  /\ UNCHANGED passVars

StoreTileRewrite ==
  /\ op.kind = "store_tile"
  /\ rewriter.status = "pending"
  /\ \E outOfRange \in OutOfRangeOutcomes :
       rewriter' = WGToSGStoreTileOpPattern(op, op.values, op.tiles,
                                            outOfRange)
  /\ UNCHANGED <<op, sgLayoutMap, sgRuns>>
  /\ UNCHANGED passVars

StoreScatterRewrite ==
  /\ op.kind = "store_scatter"
  /\ rewriter.status = "pending"
  /\ \E outOfRange \in OutOfRangeOutcomes :
       rewriter' = WGToSGStoreScatterOpPattern(op, op.values, op.tiles,
                                               op.masks, outOfRange)
  /\ UNCHANGED <<op, sgLayoutMap, sgRuns>>
  /\ UNCHANGED passVars

PrefetchRewrite ==
  /\ op.kind = "prefetch_tile"
  /\ rewriter.status = "pending"
  /\ rewriter' = WGToSGPrefetchOpPattern(op, op.tiles)
  /\ UNCHANGED <<op, sgLayoutMap, sgRuns>>
  /\ UNCHANGED passVars

UpdateTileOffsetRewrite ==
  /\ op.kind = "update_tile_offset"
  /\ rewriter.status = "pending"
  /\ rewriter' = WGToSGUpdateTileOffsetOpPattern(op, op.tiles)
  /\ UNCHANGED <<op, sgLayoutMap, sgRuns>>
  /\ UNCHANGED passVars

NextFanOut ==
  \/ LoadTileRewrite
  \/ LoadGatherRewrite
  \/ StoreTileRewrite
  \/ StoreScatterRewrite
  \/ PrefetchRewrite
  \/ UpdateTileOffsetRewrite

SpecFanOut == InitFanOut /\ [][NextFanOut]_vars

(***************************************************************************)
(* SpecElementWise: WGToSGElementWiseOpSameArgAndResultTypePattern, which  *)
(* is registered for math.exp and math.sqrt (one operand) and arith.addf   *)
(* (two operands), applied to one operation whose operands are already     *)
(* remapped to lists of subgroup-level values.                             *)
(***************************************************************************)
\* Mutant: one instance per pair of rounds.
ElementWiseNumOps_Product(o) ==
  (o.shape[1] \div (o.sgLayout[1] * o.sgData[1]))
    * (o.shape[2] \div (o.sgLayout[2] * o.sgData[2]))

\* numOps of lines 1024-1032.
ElementWiseNumOps(o) ==
  IF \/ o.sgLayout[1] * o.sgData[1] = o.shape[1]
     \/ o.sgLayout[2] * o.sgData[2] = o.shape[2]
     \/ o.sgLayout[2] * o.sgData[1] = o.shape[1]
     \/ o.sgLayout[1] * o.sgData[2] = o.shape[2]
    THEN 1
    ELSE (o.shape[1] \div (o.sgLayout[1] * o.sgData[1]))
           + (o.shape[2] \div (o.sgLayout[2] * o.sgData[2]))

\* createOp (lines 964-978): the instance built from operands[j][i] of
\* every operand j, its result type then set to newTy (line 1037).
createOp(o, operands, i) ==
  [kind |-> o.kind,
   operands |-> [j \in 1..Len(operands) |-> RangeAt(operands[j], i)],
   shape |-> o.sgData, elemType |-> o.elemType]

WGToSGElementWiseOpSameArgAndResultTypePattern(o, operands, outOfRange) ==
  IF ~o.map
    THEN [status |-> "failure", newOps |-> <<>>, replacement |-> <<>>]
  ELSE IF /\ \E j \in 1..Len(operands) :
               Len(operands[j]) < ElementWiseNumOps(o)
          /\ outOfRange = "assert"
    THEN [status |-> "abort", newOps |-> <<>>, replacement |-> <<>>]
  ELSE LET newOps == [i \in 1..ElementWiseNumOps(o) |->
                        createOp(o, operands, i)]
       IN  [status |-> "success", newOps |-> newOps,
            replacement |-> newOps]

\* How many values an operand of the model is decomposed into.
ValueCounts == {1, 4, 6}

ElementWiseOperand(j, n) ==
  [i \in 1..n |-> [id |-> <<"operand", j, i>>]]

\* math.exp with and without a map attribute, math.sqrt, and arith.addf
\* whose second operand has as many values as the first or a single one.
ElementWiseOps(pairs) ==
  { [kind |-> k[1], map |-> k[2], shape |-> <<p[1].w, p[2].w>>,
     sgLayout |-> <<p[1].l, p[2].l>>, sgData |-> <<p[1].d, p[2].d>>,
     elemType |-> "f32", operands |-> <<ElementWiseOperand(1, n)>>] :
      k \in {<<"exp", TRUE>>, <<"exp", FALSE>>, <<"sqrt", TRUE>>},
      p \in pairs, n \in ValueCounts }
  \cup
  { [kind |-> "addf", map |-> TRUE, shape |-> <<p[1].w, p[2].w>>,
     sgLayout |-> <<p[1].l, p[2].l>>, sgData |-> <<p[1].d, p[2].d>>,
     elemType |-> "f32",
     operands |-> <<ElementWiseOperand(1, c[1]), ElementWiseOperand(2, c[2])>>] :
      p \in pairs,
      c \in { x \in ValueCounts \X ValueCounts : x[2] \in {1, x[1]} } }

InitElementWise ==
  /\ op \in ElementWiseOps(AxisPairs)
  /\ sgLayoutMap = <<>>
  /\ rewriter = Pending
  /\ sgRuns = <<>>
  /\ NoModule

ElementWiseRewrite ==
  /\ op.kind \in {"exp", "sqrt", "addf"}
  /\ rewriter.status = "pending"
  /\ \E outOfRange \in OutOfRangeOutcomes :
       rewriter' = WGToSGElementWiseOpSameArgAndResultTypePattern(
                     op, op.operands, outOfRange)
  /\ UNCHANGED <<op, sgLayoutMap, sgRuns>>
  /\ UNCHANGED passVars

NextElementWise == ElementWiseRewrite

SpecElementWise == InitElementWise /\ [][NextElementWise]_vars

(***************************************************************************)
(* WGToSGArithConstantOpPattern (lines 469-542)                            *)
(***************************************************************************)
\* Line 476-477 reads value.getType() before the null test of line 480: on
\* a constant whose value is not a DenseElementsAttr the read is undefined;
\* the build either stops there or goes on to the test and fails the match.
NullValueOutcomes == {"abort", "failure"}

\* Lines 491-502: the non-unit dimension of sgData for a 1-D constant,
\* sgData itself otherwise.
ConstantOutputShape(o) ==
  IF Len(o.shape) = 1
    THEN IF o.sgData[1] = 1 THEN <<o.sgData[2]>> ELSE <<o.sgData[1]>>
    ELSE <<o.sgData[1], o.sgData[2]>>

\* Lines 507-514: elems[i] for i < sgData[0] * sgData[1].
ConstantNewValues(o) ==
  [i \in 1..(o.sgData[1] * o.sgData[2]) |-> RangeAt(o.elems, i)]

\* Lines 518-532; 0 stands for the failure of line 526.
ConstantNumOps(o) ==
  IF Len(o.shape) = 1
    THEN IF \/ o.sgLayout[1] * o.sgData[1] = o.shape[1]
            \/ o.sgLayout[2] * o.sgData[2] = o.shape[1]
           THEN 1 ELSE 0
  ELSE IF /\ o.sgLayout[1] * o.sgData[1] = o.shape[1]
          /\ o.sgLayout[2] * o.sgData[2] = o.shape[2]
    THEN 1
    ELSE (o.shape[1] \div (o.sgLayout[1] * o.sgData[1]))
           + (o.shape[2] \div (o.sgLayout[2] * o.sgData[2]))

WGToSGArithConstantOpPattern(o, nullValue, outOfRange) ==
  IF ~o.dense
    THEN [status |-> nullValue, newOps |-> <<>>, replacement |-> <<>>]
  ELSE IF ~o.map
    THEN [status |-> "failure", newOps |-> <<>>, replacement |-> <<>>]
  ELSE IF o.sgData[1] * o.sgData[2] > Len(o.elems) /\ outOfRange = "assert"
    THEN [status |-> "abort", newOps |-> <<>>, replacement |-> <<>>]
  ELSE IF ConstantNumOps(o) = 0
    THEN [status |-> "failure", newOps |-> <<>>, replacement |-> <<>>]
  ELSE LET newOps == [i \in 1..ConstantNumOps(o) |->
                        [kind |-> "constant",
                         shape |-> ConstantOutputShape(o),
                         elemType |-> o.elemType,
                         elems |-> ConstantNewValues(o)]]
       IN  [status |-> "success", newOps |-> newOps,
            replacement |-> newOps]

\* The elements of a constant of n elements: counting up or counting down.
ConstantElems(n, order) ==
  [i \in 1..n |-> IF order = "up" THEN i ELSE n + 1 - i]

\* 2-D constants over the shapes and maps of the init_tile model, 1-D
\* constants over one of its axes, and a constant whose value is not dense.
ConstantOps(pairs) ==
  { [kind |-> "constant", dense |-> TRUE, map |-> mp,
     shape |-> <<p[1].w, p[2].w>>,
     sgLayout |-> <<p[1].l, p[2].l>>, sgData |-> <<p[1].d, p[2].d>>,
     elemType |-> "f32",
     elems |-> ConstantElems(p[1].w * p[2].w, order)] :
      mp \in BOOLEAN, p \in pairs, order \in {"up", "down"} }
  \cup
  { [kind |-> "constant", dense |-> dn, map |-> TRUE,
     shape |-> <<p[2].w>>,
     sgLayout |-> <<p[1].l, p[2].l>>, sgData |-> <<p[1].d, p[2].d>>,
     elemType |-> "f32",
     elems |-> ConstantElems(p[2].w, "up")] :
      dn \in BOOLEAN, p \in pairs }

InitConstant ==
  /\ op \in ConstantOps(AxisPairs)
  /\ sgLayoutMap = <<>>
  /\ rewriter = Pending
  /\ sgRuns = <<>>
  /\ NoModule

ConstantRewrite ==
  /\ op.kind = "constant"
  /\ rewriter.status = "pending"
  /\ \E nullValue \in NullValueOutcomes, outOfRange \in OutOfRangeOutcomes :
       rewriter' = WGToSGArithConstantOpPattern(op, nullValue, outOfRange)
  /\ UNCHANGED <<op, sgLayoutMap, sgRuns>>
  /\ UNCHANGED passVars

NextConstant == ConstantRewrite

SpecConstant == InitConstant /\ [][NextConstant]_vars

(***************************************************************************)
(* SpecChain: the function body                                            *)
(*   %t = init_tile ... !tile<WxW, wg_map<L, D>>                           *)
(*   %v = load_tile %t                                                     *)
(*   %e = math.exp %v {map = wg_map<L, D>}     (or math.sqrt)              *)
(*   store_tile %e, %t                                                     *)
(* rewritten operation by operation, every pattern taking the replacement  *)
(* lists the earlier ones recorded (adaptor.getOperands()).                *)
(***************************************************************************)
\* The init_tile ops of a chain: blocked row-major tiles of a memref.
ChainInitTiles ==
  { o \in InitTileOps :
      /\ o.order = <<1, 0>> /\ ~o.scatter /\ o.sourceIsMemRef
      /\ o.offsets = <<0, 0>> }

\* The elementwise op of the chain: the shape and the map of the tile.
ChainElementWise(o, kind) ==
  [kind |-> kind, map |-> TRUE, shape |-> o.shape, sgLayout |-> o.sgLayout,
   sgData |-> o.sgData, elemType |-> "f32"]

InitChain ==
  /\ op \in ChainInitTiles
  /\ sgLayoutMap \in {<<>>, [v \in {InitResult} |-> <<0, 1>>]}
  /\ rewriter = Pending
  /\ sgRuns = <<>>
  /\ \E kind \in {"exp", "sqrt"} :
       module = <<op, [kind |-> "load_tile", rank |-> 2],
                  ChainElementWise(op, kind), [kind |-> "store_tile"]>>
  /\ toConvert = <<1, 2, 3, 4>>
  /\ cursor = 0
  /\ created = <<>>
  /\ mapping = <<>>
  /\ pc = "chain"
  /\ passResult = "none"
  /\ loadOps = <<>>
  /\ initOps = <<>>

\* What one pattern application leaves behind.
ChainRecord(r) ==
  /\ rewriter' = r
  /\ IF r.status = "success"
       THEN /\ cursor' = cursor + 1
            /\ created' = created \o r.newOps
            /\ mapping' = Append(mapping, r.replacement)
            /\ pc' = pc
       ELSE /\ pc' = IF r.status = "abort" THEN "aborted" ELSE "failed"
            /\ UNCHANGED <<cursor, created, mapping>>
  /\ UNCHANGED <<op, sgLayoutMap, sgRuns, module, toConvert, passResult,
                 loadOps, initOps>>

ChainInitTileRewrite ==
  /\ pc = "chain" /\ cursor = 0
  /\ ChainRecord(WGToSGInitTileOpPattern(module[1], sgLayoutMap))

ChainLoadTileRewrite ==
  /\ pc = "chain" /\ cursor = 1
  /\ ChainRecord(WGToSGLoadTileOpPattern(module[2], mapping[1]))

ChainElementWiseRewrite ==
  /\ pc = "chain" /\ cursor = 2
  /\ \E outOfRange \in OutOfRangeOutcomes :
       ChainRecord(WGToSGElementWiseOpSameArgAndResultTypePattern(
                     module[3], <<mapping[2]>>, outOfRange))

ChainStoreTileRewrite ==
  /\ pc = "chain" /\ cursor = 3
  /\ \E outOfRange \in OutOfRangeOutcomes :
       ChainRecord(WGToSGStoreTileOpPattern(module[4], mapping[3],
                                            mapping[1], outOfRange))

NextChain ==
  \/ ChainInitTileRewrite
  \/ ChainLoadTileRewrite
  \/ ChainElementWiseRewrite
  \/ ChainStoreTileRewrite

SpecChain == InitChain /\ [][NextChain]_vars

(***************************************************************************)
(* WGToSGSCFYieldOpPattern (lines 428-445) and SpecLoopBody: the function  *)
(* body                                                                    *)
(*   %t = init_tile ... !tile<WxW, wg_map<L, D>>                           *)
(*   %v = load_tile %t                                                     *)
(*   scf.for ... iter_args(%a = %t, %b = %v) {                             *)
(*     %u = update_tile_offset %a                                          *)
(*     %e = math.exp %b {map = wg_map<L, D>}                               *)
(*     scf.yield %u, %e             (or scf.yield %u, %b)                  *)
(*   }                                                                     *)
(* rewritten operation by operation.                                       *)
(***************************************************************************)
\* The yield is modified in place: its operands are cleared and the
\* remapped lists appended one after another.
WGToSGSCFYieldOpPattern(o, remappedYields) ==
  [status |-> "success",
   newOps |-> << [kind |-> "yield", results |-> Flatten(remappedYields)] >>,
   replacement |-> <<>>]

\* The type of a subgroup-level value: tile or vector, and its shape.
ValueType(v) ==
  IF "type" \in DOMAIN v THEN v.type
  ELSE IF v.kind \in {"init_tile", "update_tile_offset"}
    THEN <<"tile", v.shape>>
  ELSE <<"vector", v.shape>>

\* adaptor.getInitArgs(): the remapped list of one init arg, typed.
ForInitArg(values) ==
  [n \in 1..Len(values) |-> [id |-> values[n], type |-> ValueType(values[n])]]

\* The block arguments the signature conversion (lines 394-402) gives the
\* body for original loop-carried argument i.
BodyArgsOf(newFor, sizes, i) ==
  [n \in 1..sizes[i] |->
     [id |-> <<"bodyArg", newResultOffset(sizes, i) + n>>,
      type |-> newFor.bodyArgTypes[1 + newResultOffset(sizes, i) + n],
      shape |-> newFor.bodyArgTypes[1 + newResultOffset(sizes, i) + n][2]]]

\* The scf.for of the body with its init args remapped.
LoopBodyFor(map) ==
  [kind |-> "for", inductionVarType |-> <<"index", <<>>>>,
   initArgs |-> <<ForInitArg(map[1]), ForInitArg(map[2])>>]

\* The new scf.for among the created operations.
NewLoop == created[CHOOSE n \in DOMAIN created : created[n].kind = "for"]

InitLoopBody ==
  /\ op \in ChainInitTiles
  /\ sgLayoutMap = <<>>
  /\ rewriter = Pending
  /\ sgRuns = <<>>
  /\ \E yielded \in {"exp", "iter_arg"} :
       module = <<op, [kind |-> "load_tile", rank |-> 2],
                  [kind |-> "for"],
                  [kind |-> "update_tile_offset", offsetX |-> "offsetX",
                   offsetY |-> "offsetY", indices |-> "indices"],
                  ChainElementWise(op, "exp"),
                  [kind |-> "yield", yielded |-> yielded]>>
  /\ toConvert = <<1, 2, 3, 4, 5, 6>>
  /\ cursor = 0
  /\ created = <<>>
  /\ mapping = <<>>
  /\ pc = "chain"
  /\ passResult = "none"
  /\ loadOps = <<>>
  /\ initOps = <<>>

LoopForRewrite ==
  /\ pc = "chain" /\ cursor = 2 /\ module[3].kind = "for"
  /\ ChainRecord(WGToSGSCFForOpPattern(LoopBodyFor(mapping)))

LoopUpdateTileOffsetRewrite ==
  /\ pc = "chain" /\ cursor = 3 /\ module[4].kind = "update_tile_offset"
  /\ ChainRecord(WGToSGUpdateTileOffsetOpPattern(
       module[4],
       BodyArgsOf(NewLoop, remappedArgSizes(LoopBodyFor(mapping)), 1)))

LoopElementWiseRewrite ==
  /\ pc = "chain" /\ cursor = 4 /\ module[5].kind = "exp"
  /\ \E outOfRange \in OutOfRangeOutcomes :
       ChainRecord(WGToSGElementWiseOpSameArgAndResultTypePattern(
         module[5],
         <<BodyArgsOf(NewLoop, remappedArgSizes(LoopBodyFor(mapping)), 2)>>,
         outOfRange))

\* adaptor.getOperands() of the yield: what %u and %e (or %b) were
\* replaced with.
LoopYieldRewrite ==
  /\ pc = "chain" /\ cursor = 5 /\ module[6].kind = "yield"
  /\ ChainRecord(WGToSGSCFYieldOpPattern(
       module[6],
       << mapping[4],
          IF module[6].yielded = "exp" THEN mapping[5]
          ELSE BodyArgsOf(NewLoop,
                          remappedArgSizes(LoopBodyFor(mapping)), 2) >>))

NextLoopBody ==
  \/ ChainInitTileRewrite
  \/ ChainLoadTileRewrite
  \/ LoopForRewrite
  \/ LoopUpdateTileOffsetRewrite
  \/ LoopElementWiseRewrite
  \/ LoopYieldRewrite

SpecLoopBody == InitLoopBody /\ [][NextLoopBody]_vars

(***************************************************************************)
(* SpecInsert: VectorInsertOpConversion of the vector linearization pass   *)
(* (part_000, lines 457-524) applied to one vector.insert, and the two     *)
(* vector.shuffle ops it creates evaluated on the linearized operands.     *)
(* sgRuns is here the value of the second shuffle, <<>> before it ran.     *)
(***************************************************************************)
MaxInsertRank == 3  \* rank of the destination vector at most
MaxInsertDim == 2   \* size of a dimension of the destination at most

RECURSIVE NumElements(_)
NumElements(shape) ==
  IF shape = <<>> THEN 1 ELSE Head(shape) * NumElements(Tail(shape))

\* Mutant: every offset is scaled by the size of what is left after the
\* next dimension as well.
RECURSIVE linearizedOffset_LateStride(_, _, _, _)
linearizedOffset_LateStride(dstShape, offsetsNd, dim, dstSizeForOffsets) ==
  IF dim > Len(offsetsNd) THEN 0
  ELSE offsetsNd[dim] * dstSizeForOffsets
         + linearizedOffset_LateStride(dstShape, offsetsNd, dim + 1,
                                       dstSizeForOffsets \div dstShape[dim])

\* The loop of lines 487-490 from dimension dim on: dstSizeForOffsets is
\* divided by dstShape[dim], then offset * dstSizeForOffsets is added.
RECURSIVE linearizedOffset(_, _, _, _)
linearizedOffset(dstShape, offsetsNd, dim, dstSizeForOffsets) ==
  IF dim > Len(offsetsNd) THEN 0
  ELSE (offsetsNd[dim] * (dstSizeForOffsets \div dstShape[dim]))
         + linearizedOffset(dstShape, offsetsNd, dim + 1,
                            dstSizeForOffsets \div dstShape[dim])

\* indices (lines 492-503), positions counted from 1: the original values
\* before the offset, dstSize.. for the new values, the rest of the
\* original values.
InsertIndices(dstSize, srcSize, offset) ==
  [n \in 1..dstSize |->
     IF n <= offset THEN n - 1
     ELSE IF n <= offset + srcSize THEN dstSize + (n - 1 - offset)
     ELSE n - 1]

\* modifiedSrcIndices (lines 511-513): 0..srcSize-1, then zeros.
ModifiedSrcIndices(dstSize, srcSize) ==
  [n \in 1..dstSize |-> IF n <= srcSize THEN n - 1 ELSE 0]

VectorInsertOpConversion(o) ==
  IF o.dynamicPosition \/ ~o.sourceIsVector
    THEN [status |-> "failure", newOps |-> <<>>, replacement |-> <<>>]
    ELSE LET dstSize == NumElements(o.dstShape)
             srcSize == NumElements(o.srcShape)
             offset == linearizedOffset(o.dstShape, o.position, 1, dstSize)
             modifiedSource ==
               [kind |-> "vector.shuffle", result |-> "modifiedSource",
                v1 |-> "source", v2 |-> "source",
                mask |-> ModifiedSrcIndices(dstSize, srcSize)]
             newDest ==
               [kind |-> "vector.shuffle", result |-> "newDest",
                v1 |-> "dest", v2 |-> "modifiedSource",
                mask |-> InsertIndices(dstSize, srcSize, offset)]
         IN  [status |-> "success",
              newOps |-> <<modifiedSource, newDest>>,
              replacement |-> <<newDest>>]

\* vector.shuffle: element n of the result is element mask[n] of v1
\* followed by v2.
Shuffle(v1, v2, mask) == [n \in 1..Len(mask) |-> (v1 \o v2)[mask[n] + 1]]

\* The linearized operands: the elements of the destination and of the
\* source in row-major order.
LinearizedOperand(name, size) == [n \in 1..size |-> <<name, n - 1>>]

\* The created ops run one after another on the linearized operands.
RECURSIVE EvalShuffles(_, _, _)
EvalShuffles(prog, n, env) ==
  IF n > Len(prog) THEN env
  ELSE EvalShuffles(prog, n + 1,
         [v \in DOMAIN env \cup {prog[n].result} |->
            IF v = prog[n].result
              THEN Shuffle(env[prog[n].v1], env[prog[n].v2], prog[n].mask)
              ELSE env[v]])

InsertShapes(rank, size) == UNION { [1..r -> 1..size] : r \in 1..rank }

\* vector.insert of a value into dstShape at a static position of length
\* at most the rank; the source is the sub-vector left after the position,
\* a scalar when the position names one element.
InsertOps(rank, size) ==
  { [kind |-> "vector.insert", dstShape |-> x[1], position |-> x[2],
     srcShape |-> SubSeq(x[1], Len(x[2]) + 1, Len(x[1])),
     sourceIsVector |-> Len(x[2]) < Len(x[1]),
     dynamicPosition |-> dyn] :
      x \in { y \in InsertShapes(rank, size)
                     \X SeqsUpTo(0..(size - 1), rank) :
                /\ Len(y[2]) <= Len(y[1])
                /\ \A k \in 1..Len(y[2]) : y[2][k] < y[1][k] },
      dyn \in BOOLEAN }

InitInsert ==
  /\ op \in InsertOps(MaxInsertRank, MaxInsertDim)
  /\ sgLayoutMap = <<>>
  /\ rewriter = Pending
  /\ sgRuns = <<>>
  /\ NoModule

InsertRewrite ==
  /\ op.kind = "vector.insert"
  /\ rewriter.status = "pending"
  /\ rewriter' = VectorInsertOpConversion(op)
  /\ UNCHANGED <<op, sgLayoutMap, sgRuns>>
  /\ UNCHANGED passVars

InsertExec ==
  /\ op.kind = "vector.insert"
  /\ rewriter.status = "success"
  /\ sgRuns = <<>>
  /\ sgRuns' =
       EvalShuffles(rewriter.newOps, 1,
         [v \in {"dest", "source"} |->
            IF v = "dest"
              THEN LinearizedOperand("dest", NumElements(op.dstShape))
              ELSE LinearizedOperand("source", NumElements(op.srcShape))]
       )[rewriter.replacement[1].result]
  /\ UNCHANGED <<op, sgLayoutMap, rewriter>>
  /\ UNCHANGED passVars

NextInsert == InsertRewrite \/ InsertExec

SpecInsert == InitInsert /\ [][NextInsert]_vars

(***************************************************************************)
(* Properties of the init_tile rewrite.                                    *)
(***************************************************************************)
IsMarked == InitResult \in DOMAIN sgLayoutMap

\* wgTileShape[k] is an integer multiple of sgLayout[k] * sgData[k].
IsMultiple(o) ==
  \A k \in 1..2 : o.shape[k] % (o.sgLayout[k] * o.sgData[k]) = 0

Rounds(o, k) == o.shape[k] \div (o.sgLayout[k] * o.sgData[k])

InitTileDecomposed ==
  /\ op.kind = "init_tile"
  /\ rewriter.status = "success"
  /\ ~op.scatter

AllSubgroupsRan == InitTileDecomposed /\ Len(sgRuns) = NumSubgroups(op)

BaseRow(o) == o.offsets[Len(o.offsets) - 1]
BaseCol(o) == o.offsets[Len(o.offsets)]

\* The sub-tiles (subgroup run, tile index) that contain coordinate (r, c)
\* of the workgroup tile, origins taken relative to the base offset.
Covering(r, c) ==
  { <<s, n>> \in { <<s, n>> \in (1..Len(sgRuns)) \X (1..Len(rewriter.newOps)) : TRUE } :
      LET t == sgRuns[s].tiles[n]
      IN  /\ t.row - BaseRow(op) <= r /\ r < t.row - BaseRow(op) + t.shape[1]
          /\ t.col - BaseCol(op) <= c /\ c < t.col - BaseCol(op) + t.shape[2] }

\* C2: when wgTileShape is a multiple of sgLayout * sgData on both axes,
\* the sub-tiles of all subgroups 0..L0*L1-1 lie inside the workgroup tile
\* and every coordinate of it belongs to exactly one of them, whether or
\* not the init_tile result is in sgLayoutMap.
C2_ExactCover ==
  (AllSubgroupsRan /\ IsMultiple(op)) =>
    /\ \A r \in 0..(op.shape[1] - 1), c \in 0..(op.shape[2] - 1) :
         Cardinality(Covering(r, c)) = 1
    /\ \A s \in 1..Len(sgRuns), n \in 1..Len(rewriter.newOps) :
         LET t == sgRuns[s].tiles[n]
         IN  /\ t.row >= BaseRow(op)
             /\ t.row + t.shape[1] <= BaseRow(op) + op.shape[1]
             /\ t.col >= BaseCol(op)
             /\ t.col + t.shape[2] <= BaseCol(op) + op.shape[2]

\* A round-robin tile on both axes, marked column-major, on an asymmetric
\* subgroup grid, after every subgroup ran.
C2_Witness ==
  /\ AllSubgroupsRan /\ IsMultiple(op) /\ IsMarked
  /\ op.sgLayout = <<1, 2>>
  /\ Rounds(op, 1) = 2 /\ Rounds(op, 2) = 2

\* C3: for a multiple workgroup tile the rewrite emits Rounds(k) offsets
\* along axis k and Rounds(1) * Rounds(2) init_tile ops (one when
\* sgLayout * sgData equals the workgroup shape), and for every subgroup
\* the (row, column) origins of its tiles are pairwise distinct.
C3_InitOpCount ==
  (InitTileDecomposed /\ IsMultiple(op)) =>
    /\ Len(globalOffsetsX(op, sgLayoutMap)) = Rounds(op, 1)
    /\ Len(globalOffsetsY(op, sgLayoutMap)) = Rounds(op, 2)
    /\ Len(rewriter.newOps) = Rounds(op, 1) * Rounds(op, 2)
    /\ Cardinality({rewriter.newOps[n].row : n \in 1..Len(rewriter.newOps)})
         = Rounds(op, 1)
    /\ Cardinality({rewriter.newOps[n].col : n \in 1..Len(rewriter.newOps)})
         = Rounds(op, 2)
    /\ (\A k \in 1..2 : op.sgLayout[k] * op.sgData[k] = op.shape[k])
         => Len(rewriter.newOps) = 1
    /\ \A s \in 1..Len(sgRuns) :
         \A m, n \in 1..Len(rewriter.newOps) :
           m # n => <<sgRuns[s].tiles[m].row, sgRuns[s].tiles[m].col>>
                      # <<sgRuns[s].tiles[n].row, sgRuns[s].tiles[n].col>>

\* A subgroup ran a decomposition with 2 x 2 init_tile ops.
C3_Witness ==
  /\ InitTileDecomposed /\ IsMultiple(op)
  /\ Len(rewriter.newOps) = 4 /\ Len(sgRuns) >= 1
  /\ op.sgLayout = <<2, 2>>

\* The sg coordinate that enters the row-axis / column-axis offsets of the
\* generated init_tile ops, for the subgroup of one run.
RowCoordUsed(run) == EvalSgId(rewriter.newOps[1].row.sgId, run.sgID)
ColCoordUsed(run) == EvalSgId(rewriter.newOps[1].col.sgId, run.sgID)

RunsWithTiles ==
  IF InitTileDecomposed /\ Len(rewriter.newOps) > 0
    THEN {sgRuns[s] : s \in 1..Len(sgRuns)} ELSE {}

\* C4 as stated: unmarked, row = s div L1 and column = s mod L1; marked,
\* row = s div L0 and column = s mod L0; these are the coordinates of the
\* row-axis and the column-axis offsets.
C4_AsStated ==
  \A run \in RunsWithTiles :
    IF IsMarked
      THEN /\ RowCoordUsed(run) = run.sgID \div op.sgLayout[1]
           /\ ColCoordUsed(run) = run.sgID % op.sgLayout[1]
      ELSE /\ RowCoordUsed(run) = run.sgID \div op.sgLayout[2]
           /\ ColCoordUsed(run) = run.sgID % op.sgLayout[2]

\* C4 amended: unmarked, the row-axis coordinate is s div L1 and the
\* column-axis coordinate s mod L1; marked, the div/rem pair is taken by
\* L0 (sgIdY = s div L0, sgIdX = s mod L0) and the row axis uses s mod L0,
\* the column axis s div L0.  For sgLayout [4, 8] and s = 9: unmarked row 1,
\* column 1; marked row 1, column 2.
C4_SgCoordinates ==
  \A run \in RunsWithTiles :
    /\ IF IsMarked
         THEN /\ run.sgIdY = run.sgID \div op.sgLayout[1]
              /\ run.sgIdX = run.sgID % op.sgLayout[1]
              /\ RowCoordUsed(run) = run.sgID % op.sgLayout[1]
              /\ ColCoordUsed(run) = run.sgID \div op.sgLayout[1]
         ELSE /\ run.sgIdY = run.sgID \div op.sgLayout[2]
              /\ run.sgIdX = run.sgID % op.sgLayout[2]
              /\ RowCoordUsed(run) = run.sgID \div op.sgLayout[2]
              /\ ColCoordUsed(run) = run.sgID % op.sgLayout[2]
    /\ (op.sgLayout = <<4, 8>> /\ run.sgID = 9) =>
         IF IsMarked
           THEN RowCoordUsed(run) = 1 /\ ColCoordUsed(run) = 2
           ELSE RowCoordUsed(run) = 1 /\ ColCoordUsed(run) = 1

\* Subgroup 9 of the [4, 8] grid ran the code of a marked init_tile.
C4_Witness ==
  /\ IsMarked /\ op.sgLayout = <<4, 8>>
  /\ \E run \in RunsWithTiles : run.sgID = 9

(***************************************************************************)
(* Properties of the tile_mma rewrite.                                     *)
(***************************************************************************)
MMARewritten == op.kind = "tile_mma" /\ rewriter.status = "success"

\* C5: a successful tile_mma rewrite over m A values and n B values emits
\* exactly m * n tile_mma ops, A outer and B inner; the op for (i, j) uses
\* A_i and B_j and has result shape rows(A_i) x cols(B_j); with an
\* accumulator the k-th op (k = i * n + j) takes the k-th accumulator value;
\* without one it takes none.  m = 2 and n = 3 give 6 ops.
C5_MMAProduct ==
  MMARewritten =>
    LET m == Len(op.A)
        n == Len(op.B)
    IN  /\ Len(rewriter.newOps) = m * n
        /\ rewriter.replacement = rewriter.newOps
        /\ \A i \in 1..m, j \in 1..n :
             LET new == rewriter.newOps[(i - 1) * n + j]
             IN  /\ new.kind = "tile_mma"
                 /\ new.a = op.A[i]
                 /\ new.b = op.B[j]
                 /\ new.resTy = <<op.A[i].shape[1], op.B[j].shape[2]>>
                 /\ ~op.hasC => new.c = NoValue
                 /\ (op.hasC /\ (i - 1) * n + j <= Len(op.C))
                      => new.c = op.C[(i - 1) * n + j]
        /\ (m = 2 /\ n = 3 /\ ~op.hasC) => Len(rewriter.newOps) = 6

\* Two A values of different row counts, three B values, an accumulator of
\* six values.
C5_Witness ==
  /\ MMARewritten
  /\ Len(op.A) = 2 /\ Len(op.B) = 3 /\ op.hasC /\ Len(op.C) = 6
  /\ op.A[1].shape # op.A[2].shape
  /\ rewriter.newOps[5].c = op.C[5]

(***************************************************************************)
(* Properties of the scf.for rewrite.                                      *)
(***************************************************************************)
ForRewritten == op.kind = "for" /\ rewriter.status = "success"

\* n_1 + ... + n_(j-1) for the remapped lists of op.
RECURSIVE SizesBefore(_)
SizesBefore(j) == IF j <= 1 THEN 0 ELSE SizesBefore(j - 1) + Len(op.initArgs[j - 1])

\* C6: for remapped lists of sizes n_1..n_k the new loop has n_1+...+n_k
\* init args, the values of the lists in original order, and one body
\* argument more (the induction variable); the replacement of original
\* result j is the slice of the new results that starts at n_1+...+n_(j-1)
\* and has length n_j.  Sizes 3 and 1 give 4 init args and groups of 3, 1.
C6_ForFlattenAndSlice ==
  ForRewritten =>
    LET k == Len(op.initArgs)
        new == rewriter.newOps[1]
    IN  /\ Len(rewriter.newOps) = 1
        /\ Len(new.initArgs) = SizesBefore(k + 1)
        /\ Len(new.results) = SizesBefore(k + 1)
        /\ Len(new.bodyArgTypes) = 1 + SizesBefore(k + 1)
        /\ new.bodyArgTypes[1] = op.inductionVarType
        /\ Len(rewriter.replacement) = k
        /\ \A j \in 1..k :
             /\ Len(rewriter.replacement[j]) = Len(op.initArgs[j])
             /\ \A t \in 1..Len(op.initArgs[j]) :
                  /\ new.initArgs[SizesBefore(j) + t] = op.initArgs[j][t]
                  /\ rewriter.replacement[j][t]
                       = new.results[SizesBefore(j) + t]
        /\ (k = 2 /\ Len(op.initArgs[1]) = 3 /\ Len(op.initArgs[2]) = 1) =>
             /\ Len(new.initArgs) = 4
             /\ rewriter.replacement[1] = SubSeq(new.results, 1, 3)
             /\ rewriter.replacement[2] = SubSeq(new.results, 4, 4)

\* The loop of the example: two loop-carried values remapped to 3 and 1.
C6_Witness ==
  /\ ForRewritten
  /\ Len(op.initArgs) = 2
  /\ Len(op.initArgs[1]) = 3 /\ Len(op.initArgs[2]) = 1
  /\ Len(rewriter.newOps[1].initArgs) = 4

(***************************************************************************)
(* Properties of the convert_layout rewrite.                               *)
(***************************************************************************)
\* The sites rewritten successfully so far.
ConvertedSites ==
  IF pc = "pattern" /\ cursor > 0 /\ module[1].kind = "convert_layout"
    THEN IF rewriter.status = "success" THEN 1..cursor ELSE 1..(cursor - 1)
    ELSE {}

\* The positions in created of the ops of one kind that site n created.
PositionsOf(n, kind) ==
  { i \in 1..Len(created) : created[i].site = n /\ created[i].kind = kind }

\* C7: every successful application creates exactly one memref.alloc, one
\* store_tile, one gpu.barrier and one load_tile, in this program order,
\* the store and the load on the buffer just allocated; n rewritten sites
\* have n allocations of n different buffers.
C7_AllocStoreBarrierLoad ==
  /\ \A n \in ConvertedSites :
       /\ Cardinality(PositionsOf(n, "memref.alloc")) = 1
       /\ Cardinality(PositionsOf(n, "store_tile")) = 1
       /\ Cardinality(PositionsOf(n, "gpu.barrier")) = 1
       /\ Cardinality(PositionsOf(n, "load_tile")) = 1
       /\ \A a \in PositionsOf(n, "memref.alloc"),
             st \in PositionsOf(n, "store_tile"),
             b \in PositionsOf(n, "gpu.barrier"),
             ld \in PositionsOf(n, "load_tile") :
            /\ a < st /\ st < b /\ b < ld
            /\ created[st].buffer = created[a].result
            /\ created[ld].buffer = created[a].result
  /\ Cardinality({ i \in 1..Len(created) : created[i].kind = "memref.alloc" })
       = Cardinality(ConvertedSites)
  /\ Cardinality({ created[i].result :
                     i \in { j \in 1..Len(created) :
                               created[j].kind = "memref.alloc" } })
       = Cardinality(ConvertedSites)

\* Two sites rewritten, the second folding a one-use transpose.
C7_Witness ==
  /\ ConvertedSites = {1, 2}
  /\ ~isOneUseTranspose(module[1])
  /\ isOneUseTranspose(module[2])


(***************************************************************************)
(* Properties of analyzeTransposeOps.                                      *)
(***************************************************************************)
\* The operations a value depends on: its defining operation and, through
\* the operands, theirs; a loop-carried argument stands for the value that
\* entered the loop.
RECURSIVE TraceOps(_, _)
TraceOps(m, v) ==
  LET c == getPreLoopValue(m, v)
  IN  IF c.def = "op"
        THEN {c.idx} \cup UNION {TraceOps(m, m[c.idx].operands[k]) :
                                   k \in DOMAIN m[c.idx].operands}
        ELSE {}

LoadsBehind(m, t) ==
  {l \in TraceOps(m, m[t].operands[1]) : m[l].kind = "load_tile"}

InitsBehind(m, l) ==
  {i \in TraceOps(m, m[l].operands[1]) : m[i].kind = "init_tile"}

SeqRange(s) == {s[k] : k \in DOMAIN s}

HasMark(map, v) == v \in DOMAIN map /\ map[v] = ColMajor

RemainingOps ==
  {module[i] : i \in DOMAIN module \ DOMAIN mapping} \cup SeqRange(created)

\* The legality oracle: a tile operation whose tile type carries a
\* workgroup map, a tile_mma with wg_map_a, a vector operation with a map
\* attribute, and every convert_layout are illegal.
IllegalUnderOracle(o) ==
  \/ o.kind = "init_tile" /\ Attr(o, "wgMap")
  \/ o.kind = "load_tile" /\ Attr(o, "sourceWgMap")
  \/ o.kind = "store_tile" /\ Attr(o, "tileWgMap")
  \/ o.kind = "tile_mma" /\ Attr(o, "wgMapA")
  \/ o.kind = "transpose" /\ Attr(o, "map")
  \/ o.kind = "convert_layout"

UsesTileInSignature ==
  \E i \in DOMAIN module :
    module[i].kind = "func" /\ module[i].signature = "tile"

\* C1: when the pass has finished without signalling failure no operation
\* left in the module is illegal under the legality oracle, and when the
\* pass has finished with an illegal operation left it has signalled
\* failure.
C1_SuccessLeavesNoIllegalOp ==
  /\ passResult = "success" =>
       /\ pc = "done"
       /\ \A o \in RemainingOps : ~IllegalUnderOracle(o)
  /\ (pc = "done" /\ \E o \in RemainingOps : IllegalUnderOracle(o)) =>
       passResult = "failure"

\* The pass succeeded after replacing two illegal operations.
C1_Witness ==
  /\ passResult = "success"
  /\ Cardinality(DOMAIN mapping) >= 2
  /\ \A i \in DOMAIN mapping : IllegalUnderOracle(module[i])
  /\ created # <<>>

\* C9: a module whose function type uses the tile type is rejected in the
\* first step of the pass: the pass signals failure, the analysis never
\* starts, no pattern is applied, and the operations and sgLayoutMap stay
\* as they were.
C9_UnsupportedModuleRejectedFirst ==
  UsesTileInSignature =>
    /\ pc \in {"start", "done"}
    /\ pc = "start" => passResult = "none"
    /\ pc = "done" => passResult = "failure"
    /\ sgLayoutMap = <<>>
    /\ loadOps = <<>> /\ initOps = <<>>
    /\ rewriter = Pending
    /\ created = <<>> /\ mapping = <<>>

\* A rejected module in which the analysis would have found an init_tile
\* behind a transpose and the conversion an illegal operation.
C9_Witness ==
  /\ UsesTileInSignature
  /\ pc = "done"
  /\ passResult = "failure"
  /\ \E t \in DOMAIN module :
       /\ module[t].kind = "transpose"
       /\ \E l \in LoadsBehind(module, t) : InitsBehind(module, l) # {}
  /\ \E i \in DOMAIN module : IllegalUnderOracle(module[i])

\* An illegal operation that its pattern declines.
Declined(i) ==
  LET o == module[i]
      site == ConvertLayoutSiteOf(module, mapping, i)
  IN  \/ o.kind = "init_tile" /\ Attr(o, "wgMap") /\ o.order = <<0, 1>>
      \/ o.kind = "transpose" /\ Attr(o, "map")
           /\ o.result \notin DOMAIN sgLayoutMap
      \/ o.kind = "convert_layout" /\ o.rank # 2
      \/ o.kind = "convert_layout" /\ ~ConvertLayoutDerefsNull(site)
           /\ (~srcMapAttr(site).present \/ ~dstMapAttr(site).present)

DeclinedOps == {i \in DOMAIN module : Declined(i)}

AnalysisFinished ==
  pc \in {"analyzed", "convert", "conversion_failed",
          "conversion_succeeded", "aborted", "done"}

\* C10: with an operation in the module that its pattern declines, the
\* conversion never gets past that operation, never succeeds, and the pass
\* ends with failure signalled and every recorded rewrite undone.
C10_DeclinedOpFailsPass ==
  (AnalysisFinished /\ ~UsesTileInSignature /\ DeclinedOps # {}) =>
    /\ passResult # "success"
    /\ pc # "conversion_succeeded"
    /\ \A i \in DeclinedOps : cursor <= i \/ pc = "analyzed"
    /\ pc = "done" =>
         /\ passResult = "failure"
         /\ created = <<>> /\ mapping = <<>>
         /\ DeclinedOps \subseteq {i \in DOMAIN module :
                                     module[i] \in RemainingOps}

\* The pass failed at a mapped transpose that is not in sgLayoutMap, after
\* it had rewritten an earlier operation.
C10_Witness ==
  /\ pc = "done"
  /\ passResult = "failure"
  /\ rewriter.status = "failure"
  /\ op.kind = "transpose"
  /\ cursor \in DeclinedOps
  /\ \E i \in 1..(cursor - 1) :
       IllegalUnderOracle(module[i]) /\ ~Declined(i)


\* An operation the legality oracle accepts that was replaced or erased.
LegalOpsTouched ==
  {i \in DOMAIN mapping : ~IllegalUnderOracle(module[i])}

\* C11 as stated: no operation that is legal under the oracle is ever
\* replaced or erased.
C11_AsStated == LegalOpsTouched = {}

\* C11: an operation that is legal under the oracle is neither replaced nor
\* erased, except a transpose whose only use is the source of a
\* convert_layout that has been rewritten: that transpose is erased.
C11_LegalOpsKept ==
  \A i \in LegalOpsTouched :
    /\ module[i].kind = "transpose"
    /\ mapping[i] = <<>>
    /\ \E j \in DOMAIN mapping :
         /\ module[j].kind = "convert_layout"
         /\ mapping[j] # <<>>
         /\ UsesOf(module, ResultOf(module, i)) = {<<j, 1>>}

\* The pass succeeded, a legal transpose was erased by the convert_layout
\* rewrite, and the other legal operations are still in place.
C11_Witness ==
  /\ passResult = "success"
  /\ LegalOpsTouched # {}
  /\ \E k \in DOMAIN module \ DOMAIN mapping : ~IllegalUnderOracle(module[k])


(***************************************************************************)
(* Properties of the loop legality callbacks.                              *)
(***************************************************************************)
LoopCarriedOf(o) == IF o.kind = "for" THEN o.initArgs ELSE o.results

\* The producer of a vector carries a map: a load_tile whose source tile
\* type has a workgroup map, or an operation with a map attribute.  A block
\* argument has no producer.
ProducerCarriesMap(v) ==
  /\ v.definingOp.kind # "null"
  /\ \/ v.definingOp.kind = "load_tile" /\ Attr(v.definingOp, "sourceWgMap")
     \/ v.definingOp.kind # "load_tile"
        /\ (Attr(v.definingOp, "map") \/ Attr(v.definingOp, "wgMapA"))

CarriesWorkgroupLayout(v) ==
  \/ v.type = "tile" /\ v.wgMap
  \/ v.type = "vector" /\ ProducerCarriesMap(v)

\* C12: a for-loop (a yield) is legal iff none of its loop-carried init
\* values (operands) is a tile with a workgroup map or a vector whose
\* producer carries a map, and the callback comes to a verdict for every
\* loop-carried value, a block argument with no producer included.
C12_AsStated ==
  (op.kind \in {"for", "yield"} /\ rewriter.status # "pending") =>
    /\ rewriter.status \in {"legal", "illegal"}
    /\ rewriter.status = "legal" <=>
         \A i \in DOMAIN LoopCarriedOf(op) :
           ~CarriesWorkgroupLayout(LoopCarriedOf(op)[i])

\* The callback reaches hasMap with the null defining operation of a vector
\* block argument and the build's assertion fires.
C12_NullProducerReached ==
  /\ op.kind = "for"
  /\ rewriter.status = "assert"
  /\ \E i \in DOMAIN op.initArgs :
       op.initArgs[i].type = "vector" /\ op.initArgs[i].definingOp.kind = "null"


(***************************************************************************)
(* Properties of the generated store / barrier / load code as the          *)
(* subgroups of a workgroup run it.                                        *)
(***************************************************************************)
SlmStarted == op.kind = "convert_layout" /\ rewriter.status = "success"
                /\ "next" \in DOMAIN sgRuns

PositionOfKind(kind) ==
  CHOOSE k \in DOMAIN created : created[k].kind = kind

HasStored(s) == sgRuns.next[s] > PositionOfKind("store_tile")
HasLoaded(s) == sgRuns.next[s] > PositionOfKind("load_tile")

\* C13: in the code generated for one convert_layout, run by every
\* subgroup in any interleaving, a subgroup has loaded from the buffer only
\* when every subgroup has completed its store; what a load read is what
\* the write phase left in the buffer.
C13_StoresBeforeLoads ==
  SlmStarted =>
    \A s \in DOMAIN sgRuns.next :
      HasLoaded(s) =>
        /\ \A t \in DOMAIN sgRuns.next : HasStored(t)
        /\ \A x \in sgRuns.loaded[s].cells :
             x.pos \in DOMAIN sgRuns.slm =>
               x.value = sgRuns.slm[x.pos] /\ x.value # Unwritten

\* One subgroup has loaded while another still stands at the barrier.
C13_Witness ==
  /\ SlmStarted
  /\ Cardinality(DOMAIN sgRuns.next) = 4
  /\ \E s, t \in DOMAIN sgRuns.next :
       /\ HasLoaded(s)
       /\ sgRuns.loaded[s].cells # {}
       /\ sgRuns.next[t] = PositionOfKind("gpu.barrier")


\* The source map A of the site: the one map it carries besides the
\* result map B.
SiteSourceMaps ==
  {m \in {op.wgMapSource, op.defOpMap, op.transposeOperandMap} : m.present}

SiteSourceMap == CHOOSE m \in SiteSourceMaps : TRUE

SiteFolds == op.defOp = "transpose" /\ op.defOpUses = 1

\* The elements of a tile of shape d whose origin lies at position
\* (row, col) of the buffer, row by row.
PlainCells(row, col, d) ==
  { [elem |-> <<r, c>>, pos |-> <<row + r, col + c>>] :
      r \in 0..(d[1] - 1), c \in 0..(d[2] - 1) }

\* C14: with source map A, result map B and buffer shape S, subgroup s
\* stores its sub-tile of shape A.sg_data at
\*   ((s div A.sg_layout[1]) * A.sg_data[0],
\*    (s mod A.sg_layout[1]) * A.sg_data[1])
\* and loads a sub-tile of shape B.sg_data at
\*   (((s div B.sg_layout[1]) * B.sg_data[0]) mod S[0],
\*    ((s mod B.sg_layout[1]) * B.sg_data[1]) mod S[1]),
\* an origin that always lies inside the buffer.
C14_StoreAndLoadOrigins ==
  (SlmStarted /\ Cardinality(SiteSourceMaps) = 1) =>
    LET A == SiteSourceMap
        B == op.wgMapResult
        S == op.resShape
    IN  \A s \in DOMAIN sgRuns.next :
          LET row == (s \div A.sgLayout[2]) * A.sgData[1]
              col == (s % A.sgLayout[2]) * A.sgData[2]
              lrow == ((s \div B.sgLayout[2]) * B.sgData[1]) % S[1]
              lcol == ((s % B.sgLayout[2]) * B.sgData[2]) % S[2]
          IN  /\ HasStored(s) =>
                   /\ sgRuns.stored[s].tileOrigin = <<row, col>>
                   /\ sgRuns.stored[s].shape = A.sgData
                   /\ ~SiteFolds =>
                        sgRuns.stored[s].cells = PlainCells(row, col, A.sgData)
              /\ HasLoaded(s) =>
                   /\ sgRuns.loaded[s].tileOrigin = <<lrow, lcol>>
                   /\ sgRuns.loaded[s].shape = B.sgData
                   /\ <<lrow, lcol>> \in DOMAIN sgRuns.slm
                   /\ {[elem |-> x.elem, pos |-> x.pos] :
                         x \in sgRuns.loaded[s].cells}
                        = PlainCells(lrow, lcol, B.sgData)

\* The last subgroup of four has stored and loaded, and its load origin
\* was wrapped into the buffer.
C14_Witness ==
  /\ SlmStarted
  /\ Cardinality(SiteSourceMaps) = 1
  /\ 3 \in DOMAIN sgRuns.next
  /\ HasLoaded(3)
  /\ (3 \div op.wgMapResult.sgLayout[2]) * op.wgMapResult.sgData[1]
       >= op.resShape[1]
  /\ sgRuns.loaded[3].tileOrigin[1] = 0


\* The bytes one element of w bits takes.
ElementSizeBytes(w) == (w + 7) \div 8

\* C15: the scratch buffer has elementCount x elementSizeBytes bytes and
\* holds every element of the workgroup tile, whatever the element bit
\* width is (widths below 8 and widths that are no multiple of 8 included):
\* no store of a subgroup falls outside the allocated bytes.
C15_AsStated ==
  SlmStarted =>
    /\ AllocOf(created).sizeBytes
         = (op.resShape[1] * op.resShape[2]) * ElementSizeBytes(op.elemBitWidth)
    /\ AllocOf(created).sizeBytes * 8
         >= (op.resShape[1] * op.resShape[2]) * op.elemBitWidth
    /\ sgRuns.overrun = {}

\* A tile of 4-bit elements: the buffer has no byte at all and every store
\* of every subgroup has fallen outside it.
C15_StoreOutsideAllocation ==
  /\ SlmStarted
  /\ op.elemBitWidth = 4
  /\ AllocOf(created).sizeBytes = 0
  /\ \A s \in DOMAIN sgRuns.next : HasStored(s)
  /\ Cardinality(sgRuns.overrun) = op.resShape[1] * op.resShape[2]


\* The elements of a tile of shape d stored through the transposed view:
\* element (r, c) lies at position (col + c, row + r) of the buffer.
TransposedCells(row, col, d) ==
  { [elem |-> <<r, c>>, pos |-> <<col + c, row + r>>] :
      r \in 0..(d[1] - 1), c \in 0..(d[2] - 1) }

StoreOp == created[PositionOfKind("store_tile")]
StoreTile == Producer(created, StoreOp.tile)

\* C16: when the source is produced by a transpose with exactly one use,
\* the rewrite stores the transpose's remapped operand through a
\* transposed view of the buffer with tile order {0,1}, takes the store
\* offsets from the map of the operand's producer and erases the transpose;
\* element (r, c) of a subgroup's sub-tile then lies at buffer position
\* (colOffset + c, rowOffset + r).  Otherwise it stores the converted
\* source through the plain view with order {1,0}, with wg_map_source when
\* present and else with the map of the source's producer.
C16_TransposeFoldedIntoStore ==
  SlmStarted =>
    LET A == IF SiteFolds THEN op.transposeOperandMap
             ELSE IF op.wgMapSource.present THEN op.wgMapSource
             ELSE op.defOpMap
    IN  /\ StoreOp.value = IF SiteFolds THEN op.transposeOperand
                           ELSE op.source
        /\ StoreTile.order = IF SiteFolds THEN <<0, 1>> ELSE <<1, 0>>
        /\ StoreTile.shape = A.sgData
        /\ Producer(created, StoreTile.source).kind =
             IF SiteFolds THEN "memref.transpose" ELSE "memref.view"
        /\ SiteFolds =>
             Producer(created, StoreTile.source).source = ViewOf(created).result
        /\ rewriter.erased = IF SiteFolds THEN {op.defOpName} ELSE {}
        /\ \A s \in DOMAIN sgRuns.next :
             HasStored(s) =>
               LET row == (s \div A.sgLayout[2]) * A.sgData[1]
                   col == (s % A.sgLayout[2]) * A.sgData[2]
               IN  /\ sgRuns.stored[s].cells =
                        IF SiteFolds THEN TransposedCells(row, col, A.sgData)
                        ELSE PlainCells(row, col, A.sgData)
                   /\ \A x \in sgRuns.stored[s].cells :
                        x.pos \in DOMAIN sgRuns.slm

\* A one-use transpose is folded although wg_map_source names another map,
\* every subgroup has stored, and the sub-tiles are not square.
C16_Witness ==
  /\ SlmStarted
  /\ SiteFolds
  /\ op.wgMapSource.present
  /\ op.wgMapSource # op.transposeOperandMap
  /\ op.transposeOperandMap.sgData[1] # op.transposeOperandMap.sgData[2]
  /\ \A s \in DOMAIN sgRuns.next : HasStored(s)


\* The offsets the loop over i = 0, L, 2L, ... < W / D emits for one axis.
AxisOffsetCount(o, k) ==
  ((o.shape[k] \div o.sgData[k]) + o.sgLayout[k] - 1) \div o.sgLayout[k]

\* b + ((i + c) mod (W / D)) * D
AxisOffset(o, k, b, i, c) ==
  b + ((i + c) % (o.shape[k] \div o.sgData[k])) * o.sgData[k]

\* The offsets and the order of the generated init_tile ops: per axis the
\* offsets b + ((i + c) mod (W/D)) * D for i = 0, L, 2L, ... < W/D, and one
\* init_tile of shape sg_data without workgroup map per (row, column) pair,
\* rows outer and columns inner.
InitTileOffsetsInOrder ==
  InitTileDecomposed =>
    LET nY == AxisOffsetCount(op, 2)
    IN  /\ Len(rewriter.newOps) = AxisOffsetCount(op, 1) * nY
        /\ \A n \in 1..Len(rewriter.newOps) :
             LET t == rewriter.newOps[n]
                 a == (n - 1) \div nY
                 b == (n - 1) % nY
             IN  /\ t.kind = "init_tile"
                 /\ t.shape = op.sgData
                 /\ ~t.wgMap
                 /\ \A s \in 1..Len(sgRuns) :
                      /\ sgRuns[s].tiles[n].row =
                           AxisOffset(op, 1, BaseRow(op), a * op.sgLayout[1],
                                      RowCoordUsed(sgRuns[s]))
                      /\ sgRuns[s].tiles[n].col =
                           AxisOffset(op, 2, BaseCol(op), b * op.sgLayout[2],
                                      ColCoordUsed(sgRuns[s]))

\* C17: per axis the init_tile rewrite emits exactly the offsets
\* b + ((i + c) mod (W/D)) * D for i = 0, L, 2L, ... while i < W/D, in that
\* order, then one init_tile of shape sg_data without workgroup map per
\* (row offset, column offset) pair, rows outer and columns inner, each
\* with the leading offsets of the original op kept unchanged.
C17_AsStated ==
  /\ InitTileOffsetsInOrder
  /\ InitTileDecomposed =>
       \A n \in 1..Len(rewriter.newOps) :
         rewriter.newOps[n].leading
           = SubSeq(op.offsets, 1, Len(op.offsets) - 2)

\* An init_tile with three offsets is decomposed into several init_tile
\* ops; the second one has lost the leading offset.
C17_LeadingOffsetsDropped ==
  /\ InitTileDecomposed
  /\ Len(op.offsets) = 3
  /\ Len(rewriter.newOps) >= 2
  /\ rewriter.newOps[1].leading = <<op.offsets[1]>>
  /\ rewriter.newOps[2].leading = <<>>
  /\ Len(sgRuns) >= 1


ScatterTileHandled ==
  op.kind = "init_tile" /\ op.scatter /\ rewriter.status # "pending"

\* The one init_tile a scatter tile is rewritten to: shape sg_data, scatter
\* flag and memory space kept, no workgroup map, the index operand kept,
\* and no row / column offset computed for it.
ScatterRewrittenOneToOne ==
  /\ rewriter.status = "success"
  /\ Len(rewriter.newOps) = 1
  /\ rewriter.replacement = rewriter.newOps
  /\ LET t == rewriter.newOps[1]
     IN  /\ t.kind = "init_tile"
         /\ t.shape = op.sgData
         /\ t.scatter
         /\ t.memorySpace = op.memorySpace
         /\ ~t.wgMap
         /\ t.indices = op.indices
         /\ DOMAIN t \cap {"row", "col", "leading"} = {}

FanOutKinds ==
  {"load_tile", "load_gather", "store_tile", "store_scatter",
   "prefetch_tile", "update_tile_offset"}

\* The rule was applied and did not decline.
FannedOut ==
  /\ op.kind \in FanOutKinds
  /\ "tiles" \in DOMAIN op
  /\ rewriter.status \notin {"pending", "failure"}

\* What the fan-out rules do for the operations that have one list of
\* tile handles, or a list of (tile, mask) pairs, to go by.
FanOutPerHandle ==
  FannedOut =>
    /\ op.kind \in {"load_tile", "prefetch_tile", "update_tile_offset"} =>
         /\ rewriter.status = "success"
         /\ Len(rewriter.newOps) = Len(op.tiles)
         /\ \A k \in 1..Len(op.tiles) :
              /\ rewriter.newOps[k].kind = op.kind
              /\ IF op.kind = "load_tile"
                   THEN rewriter.newOps[k].source = op.tiles[k]
                   ELSE rewriter.newOps[k].tile = op.tiles[k]
              /\ op.kind # "prefetch_tile" =>
                   rewriter.newOps[k].shape = op.tiles[k].shape
    /\ op.kind = "load_gather" =>
         /\ rewriter.status = "success"
         /\ Len(rewriter.newOps) = Min(Len(op.tiles), Len(op.masks))
         /\ \A k \in 1..Len(rewriter.newOps) :
              /\ rewriter.newOps[k].kind = "load_gather"
              /\ rewriter.newOps[k].source = op.tiles[k]
              /\ rewriter.newOps[k].mask = op.masks[k]
              /\ rewriter.newOps[k].shape = op.tiles[k].shape
    /\ op.kind = "prefetch_tile" =>
         rewriter.erased /\ rewriter.replacement = <<>>

\* C19: load_tile, prefetch_tile and update_tile_offset are rewritten to
\* exactly one new op per decomposed tile handle, in handle order, of the
\* handle's reduced shape; load_gather and store_scatter to one op per
\* matching tile/mask pair; store_tile to exactly one store per decomposed
\* destination tile handle, the i-th decomposed value written to the i-th
\* tile; no arithmetic is created, and the original store / prefetch op is
\* erased.
C19_AsStated ==
  /\ FanOutPerHandle
  /\ FannedOut =>
       /\ op.kind = "store_tile" =>
            /\ rewriter.status = "success"
            /\ rewriter.erased
            /\ Len(rewriter.newOps) = Len(op.tiles)
            /\ \A i \in 1..Len(op.tiles) :
                 /\ rewriter.newOps[i].kind = "store_tile"
                 /\ rewriter.newOps[i].value = op.values[i]
                 /\ rewriter.newOps[i].tile = op.tiles[i]
       /\ op.kind = "store_scatter" =>
            /\ rewriter.status = "success"
            /\ rewriter.erased
            /\ Len(rewriter.newOps) = Min(Len(op.tiles), Len(op.masks))
            /\ \A i \in 1..Len(rewriter.newOps) :
                 /\ rewriter.newOps[i].kind = "store_scatter"
                 /\ rewriter.newOps[i].value = op.values[i]
                 /\ rewriter.newOps[i].tile = op.tiles[i]
                 /\ rewriter.newOps[i].mask = op.masks[i]

\* The stores when the value, the tile (and the mask) are decomposed into
\* equally many parts.
StoresWhenListsMatch ==
  (/\ FannedOut
   /\ op.kind \in {"store_tile", "store_scatter"}
   /\ Len(op.values) = Len(op.tiles)
   /\ op.kind = "store_scatter" => Len(op.masks) = Len(op.tiles)) =>
    /\ rewriter.status = "success"
    /\ rewriter.erased
    /\ Len(rewriter.newOps) = Len(op.tiles)
    /\ \A i \in 1..Len(op.tiles) :
         /\ rewriter.newOps[i].kind = op.kind
         /\ rewriter.newOps[i].value = op.values[i]
         /\ rewriter.newOps[i].tile = op.tiles[i]
         /\ op.kind = "store_scatter" =>
              rewriter.newOps[i].mask = op.masks[i]

\* A store_tile whose value has more decomposed parts than its destination
\* has tile handles: the read of newDstTiles[i] runs past the end.
C19_StorePastTileList ==
  /\ op.kind = "store_tile"
  /\ Len(op.values) = 2
  /\ Len(op.tiles) = 1
  /\ rewriter.status = "abort"


(***************************************************************************)
(* Properties of the elementwise rewrite.                                  *)
(***************************************************************************)
ElementWiseKinds == {"exp", "sqrt", "addf"}

\* C20: a same-shape elementwise op (exp, sqrt, addf) with map (L, D) and
\* result shape W is rewritten to exactly 1 instance if L[0]*D[0] = W[0] or
\* L[1]*D[1] = W[1] or L[1]*D[0] = W[0] or L[0]*D[1] = W[1], and otherwise
\* to exactly W[0]/(L[0]*D[0]) + W[1]/(L[1]*D[1]) instances; instance i
\* consumes the i-th decomposed value of every operand and has the result
\* type of shape D with the original element type.
C20_ElementWiseInstances ==
  (op.kind \in ElementWiseKinds /\ rewriter.status # "pending" /\ op.map) =>
    LET L == op.sgLayout
        D == op.sgData
        W == op.shape
        N == IF \/ L[1] * D[1] = W[1] \/ L[2] * D[2] = W[2]
                \/ L[2] * D[1] = W[1] \/ L[1] * D[2] = W[2]
               THEN 1
               ELSE W[1] \div (L[1] * D[1]) + W[2] \div (L[2] * D[2])
    IN  /\ (\A j \in DOMAIN op.operands : Len(op.operands[j]) >= N)
             => rewriter.status = "success"
        /\ rewriter.status = "success" =>
             /\ Len(rewriter.newOps) = N
             /\ rewriter.replacement = rewriter.newOps
             /\ \A i \in 1..N :
                  /\ rewriter.newOps[i].kind = op.kind
                  /\ rewriter.newOps[i].shape = D
                  /\ rewriter.newOps[i].elemType = op.elemType
                  /\ Len(rewriter.newOps[i].operands) = Len(op.operands)
                  /\ \A j \in DOMAIN op.operands :
                       i <= Len(op.operands[j]) =>
                         rewriter.newOps[i].operands[j] = op.operands[j][i]

\* An addf with two rounds on each axis, its operands decomposed into four
\* values each, is rewritten to 2 + 2 instances.
C20_Witness ==
  /\ op.kind = "addf" /\ op.map
  /\ rewriter.status = "success"
  /\ op.shape = <<4, 4>> /\ op.sgLayout = <<2, 2>> /\ op.sgData = <<1, 1>>
  /\ Len(op.operands[1]) = 4 /\ Len(op.operands[2]) = 4
  /\ Len(rewriter.newOps) = 4


(***************************************************************************)
(* Properties of the constant rewrite.                                     *)
(***************************************************************************)
ConstantRewritten2D ==
  /\ op.kind = "constant"
  /\ Len(op.shape) = 2
  /\ rewriter.status = "success"

\* Every instance is the constant of shape sgData holding the first
\* sgData[0] * sgData[1] elements of the original, in order.
ConstantInstancesAreLeadingSlice ==
  ConstantRewritten2D =>
    \A i \in 1..Len(rewriter.newOps) :
      /\ rewriter.newOps[i].kind = "constant"
      /\ rewriter.newOps[i].shape = op.sgData
      /\ rewriter.newOps[i].elems =
           SubSeq(op.elems, 1, op.sgData[1] * op.sgData[2])

\* C21: for a 2-D dense constant with map (L, D) and shape W the constant
\* rewrite emits as many instances as the elementwise rule emits for the
\* same W and map, and every instance is the same constant of shape D whose
\* elements are the first D[0]*D[1] elements of the original, in order.
C21_AsStated ==
  ConstantRewritten2D =>
    /\ Len(rewriter.newOps) = ElementWiseNumOps(op)
    /\ ConstantInstancesAreLeadingSlice

\* C21: a rewritten 2-D constant with more instances than the elementwise
\* rule gives: exactly one axis satisfies sgLayout[k] * sgData[k] = W[k].
C21_InstanceCountsDiffer ==
  /\ ConstantRewritten2D
  /\ op.shape = <<4, 8>> /\ op.sgLayout = <<2, 2>> /\ op.sgData = <<2, 2>>
  /\ Len(rewriter.newOps) = 3
  /\ ElementWiseNumOps(op) = 1


(***************************************************************************)
(* Properties of the marks analyzeTransposeOps leaves.                     *)
(***************************************************************************)
\* Every time the backward trace comes upon init_tile i: the transpose t,
\* the position k of a load in the loads found behind t, and the position j
\* of i in the init_tile ops found behind that load.
Discoveries(m, i) ==
  UNION { UNION { { <<t, k, j>> :
                      j \in { x \in DOMAIN findOps(m, "init_tile",
                                      m[findOps(m, "load_tile",
                                          m[t].operands[1])[k]].operands[1]) :
                              findOps(m, "init_tile",
                                m[findOps(m, "load_tile",
                                    m[t].operands[1])[k]].operands[1])[x]
                                = i } } :
                  k \in DOMAIN findOps(m, "load_tile", m[t].operands[1]) } :
          t \in { u \in DOMAIN m : m[u].kind = "transpose" } }

InitTilesOf(m) == { i \in DOMAIN m : m[i].kind = "init_tile" }

\* C22: after the analysis has completed, an init_tile result the backward
\* trace discovered two or more times is not in sgLayoutMap, and one it
\* discovered exactly once is marked {0,1}.
C22_AsStated ==
  pc = "analyzed" =>
    \A i \in InitTilesOf(module) :
      /\ Cardinality(Discoveries(module, i)) >= 2 =>
           ResultOf(module, i) \notin DOMAIN sgLayoutMap
      /\ Cardinality(Discoveries(module, i)) = 1 =>
           HasMark(sgLayoutMap, ResultOf(module, i))

\* What the analysis leaves: the mark is there exactly when the number of
\* discoveries is odd.
MarkedWhenOddlyDiscovered ==
  pc = "analyzed" =>
    \A i \in InitTilesOf(module) :
      HasMark(sgLayoutMap, ResultOf(module, i))
        <=> Cardinality(Discoveries(module, i)) % 2 = 1

\* C22: the analysis has completed on a module with three transposes of
\* one loaded vector; the init_tile behind the load was discovered three
\* times and its result is marked {0,1}.
C22_ThirdDiscoveryMarksAgain ==
  /\ pc = "analyzed"
  /\ Len(module) = 5
  /\ module[1].kind = "init_tile"
  /\ \A t \in 3..5 : module[t].kind = "transpose"
  /\ Cardinality(Discoveries(module, 1)) = 3
  /\ HasMark(sgLayoutMap, ResultOf(module, 1))


(***************************************************************************)
(* Properties of the backward trace (getPreLoopValue, findOps).            *)
(***************************************************************************)
\* The transpose the walk is at, once it has visited one.
AtTranspose ==
  /\ pc \in {"walk", "loads", "inits"}
  /\ cursor \in DOMAIN module
  /\ module[cursor].kind = "transpose"

\* The run of findOps<LoadTileOp> on the input of that transpose.
LoadTrace == findOpsRun(module, "load_tile", module[cursor].operands[1])

NoRepeats(s) == \A j, k \in DOMAIN s : s[j] = s[k] => j = k

\* The values of a module: results, loop-carried arguments, induction
\* variables and the function argument.
ValuesOf(m) == AvailableValues(m) \cup {FuncArg}

\* The trace ends, having taken each value off the worklist at most once to
\* go on with it: it goes through at most as many defining operations as
\* the module has values.
TraceIsBounded ==
  AtTranspose =>
    /\ LoadTrace.visited \subseteq ValuesOf(module)
    /\ Len(LoadTrace.expanded) <= Cardinality(LoadTrace.visited)

\* A loop-carried argument stands for the value that entered the outermost
\* loop carrying it; induction variables and function arguments are left as
\* they are and nothing is gone through for them.
BlockArgumentsResolved ==
  AtTranspose =>
    /\ \A v \in LoadTrace.visited :
         /\ getPreLoopValue(module, v).def # "iter_arg"
         /\ v.def = "iter_arg" /\ getPreLoopValue(module, v).def = "op" =>
              getPreLoopValue(module, v) \in SeqRange(LoadTrace.expanded)
         /\ v.def \in {"induction_var", "func_arg"} =>
              getPreLoopValue(module, v) = v
    /\ \A k \in DOMAIN LoadTrace.expanded : LoadTrace.expanded[k].def = "op"

\* C23: the backward trace terminates on every dataflow graph, each value
\* is expanded at most once, a loop-carried body argument is replaced by
\* its pre-loop initial value through nested loops, and the induction
\* variable and non-loop block arguments end the trace on their path.
C23_AsStated ==
  AtTranspose =>
    /\ TraceIsBounded
    /\ NoRepeats(LoadTrace.expanded)
    /\ BlockArgumentsResolved

\* C23: the trace behind transpose(addf(%v, %arg)) with %arg the
\* loop-carried argument initialised by %v = load_tile: the load is gone
\* through twice, once for %arg and once for %v, and is matched twice.
C23_ValueExpandedTwice ==
  /\ AtTranspose
  /\ pc = "loads"
  /\ cursor = 5
  /\ module[3].kind = "for"
  /\ module[4].operands = <<OpResult(2, "vector"), IterArg(3, "vector")>>
  /\ LoadTrace.expanded =
       <<OpResult(4, "vector"), OpResult(2, "vector"), OpResult(1, "tile"),
         OpResult(2, "vector")>>
  /\ loadOps = <<2, 2>>


(***************************************************************************)
(* Properties of the conversion loop.                                      *)
(***************************************************************************)
\* The operations of the program that the target takes as illegal: the
\* original ones that are not replaced and the created ones.
IllegalCount(m, mp, cr) ==
  Cardinality({i \in DOMAIN m \ DOMAIN mp : ~isLegal(m[i])})
    + Cardinality({k \in DOMAIN cr : ~isLegal(cr[k])})

\* A pattern has just returned success for the operation at the cursor.
PatternSucceeded ==
  /\ pc = "convert"
  /\ cursor' = cursor + 1
  /\ ~isLegal(module[toConvert[cursor + 1]])
  /\ rewriter'.status = "success"

\* runOnOperation has no step left.
PassEnded == pc \in {"done", "aborted"}

\* C24: every operation a rewrite rule creates is legal under the target,
\* each successful rule application strictly decreases the number of illegal
\* operations, and the pass ends either with no illegal operation left or
\* with pass failure.
C24_AsStated ==
  /\ [][PatternSucceeded =>
          /\ \A k \in DOMAIN rewriter'.newOps : isLegal(rewriter'.newOps[k])
          /\ IllegalCount(module', mapping', created')
               < IllegalCount(module, mapping, created)]_vars
  /\ [](PassEnded =>
          \/ passResult = "failure"
          \/ passResult = "success"
               /\ IllegalCount(module, mapping, created) = 0)

\* A rewrite the conversion records creates legal operations only and
\* leaves fewer illegal operations; a pattern that succeeded but created an
\* illegal operation makes the conversion fail.
RecordedRewritesMakeProgress ==
  [][PatternSucceeded =>
       IF \A k \in DOMAIN rewriter'.newOps : isLegal(rewriter'.newOps[k])
         THEN /\ pc' = "convert"
              /\ IllegalCount(module', mapping', created')
                   < IllegalCount(module, mapping, created)
         ELSE pc' = "conversion_failed"]_vars

\* The pass always comes to its end.
PassTerminates == <>PassEnded

\* The pass has ended in pass failure after a pattern succeeded and created
\* an illegal operation: a load_tile of a tile that a legal operation
\* produces with a workgroup map.
IllegalOpCreated ==
  /\ pc = "done"
  /\ passResult = "failure"
  /\ rewriter.status = "success"
  /\ \E k \in DOMAIN rewriter.newOps : ~isLegal(rewriter.newOps[k])

\* C24: the pass has stopped in the convert_layout pattern, on the null
\* defining operation of a block argument: illegal operations remain and
\* no pass failure was signalled.
C24_PassEndsInCrash ==
  /\ pc = "aborted"
  /\ op.kind = "convert_layout"
  /\ op.defOp = "null"
  /\ passResult = "none"
  /\ IllegalCount(module, mapping, created) > 0


(***************************************************************************)
(* Properties of the order in which the driver takes the operations.       *)
(***************************************************************************)
ConversionEnded ==
  pc \in {"conversion_succeeded", "conversion_failed", "aborted"}

\* What a conversion leaves: whether it failed, how often it emitted each
\* operation, and the replacement lists.
ConversionOutcome(st) ==
  [ended |-> IF st.pc \in {"convert", "conversion_succeeded"}
               THEN "succeeded" ELSE st.pc,
   emitted |-> [x \in SeqRange(st.created) |->
                  Cardinality({k \in DOMAIN st.created : st.created[k] = x})],
   replacements |-> st.mapping]

ConversionStart ==
  [rewriter |-> Pending, created |-> <<>>, mapping |-> <<>>,
   pc |-> "convert"]

OutcomeInOrder(ord) ==
  ConversionOutcome(
    ConvertInOrder(module, sgLayoutMap, ord, 1, ConversionStart))

OutcomeReached ==
  ConversionOutcome([rewriter |-> rewriter, created |-> created,
                     mapping |-> mapping, pc |-> pc])

\* The run the model has taken is the conversion in the order toConvert.
RunFollowsOrder ==
  ConversionEnded => OutcomeReached = OutcomeInOrder(toConvert)

\* C25: the outcome of the pass does not depend on the order in which the
\* driver takes the operations: any other order of the same module fails
\* when this one failed, and otherwise emits the same operations as often
\* and records the same replacement lists.
C25_AsStated ==
  ConversionEnded =>
    \A ord \in DriverOrders(module) : OutcomeInOrder(ord) = OutcomeReached

\* C25: the conversion has succeeded with the convert_layout taken before
\* the transpose that feeds it: the transpose was erased and no
\* vector.transpose was emitted, while the walk order emits one.
C25_ConvertBeforeTranspose ==
  /\ pc = "conversion_succeeded"
  /\ toConvert = <<1, 2, 3, 5, 4>>
  /\ module[5].kind = "convert_layout"
  /\ mapping[4] = <<>>
  /\ \A k \in DOMAIN created : created[k].kind # "transpose"
  /\ OutcomeInOrder(WalkOrder(module)).ended = "succeeded"
  /\ OutcomeInOrder(WalkOrder(module)) # OutcomeReached

\* The conversion has failed with the scf.for taken before the init_tile
\* whose tile it carries, while the walk order succeeds.
ForBeforeProducerFails ==
  /\ pc = "conversion_failed"
  /\ module[3].kind = "for"
  /\ toConvert = <<1, 3, 2>>
  /\ OutcomeInOrder(WalkOrder(module)).ended = "succeeded"


(***************************************************************************)
(* Properties of layout_order [0, 1].                                      *)
(***************************************************************************)
\* The subgroup id in row r, column c of the sg_layout grid when the ids
\* are arranged in column major (the table of lines 1308-1313).
ColumnMajorId(sgLayout, r, c) == r + c * sgLayout[1]

\* C26: for a value marked in sgLayoutMap, subgroup id s sits in row
\* s mod L0 and column s div L0 of the column-major sg_layout grid (for
\* [4, 8], id 9 is in row 1, column 2), and the generated init_tile code
\* takes that row for the row-axis offset and that column for the
\* column-axis offset.
C26_ColumnMajorCoordinates ==
  IsMarked =>
    \A run \in RunsWithTiles :
      LET r == run.sgID % op.sgLayout[1]
          c == run.sgID \div op.sgLayout[1]
      IN  /\ r < op.sgLayout[1] /\ c < op.sgLayout[2]
          /\ ColumnMajorId(op.sgLayout, r, c) = run.sgID
          /\ RowCoordUsed(run) = r
          /\ ColCoordUsed(run) = c
          /\ run.tiles[1].row =
               BaseRow(op) + (r % (op.shape[1] \div op.sgData[1]))
                               * op.sgData[1]
          /\ run.tiles[1].col =
               BaseCol(op) + (c % (op.shape[2] \div op.sgData[2]))
                               * op.sgData[2]
          /\ op.sgLayout = <<4, 8>> /\ run.sgID = 9 => r = 1 /\ c = 2

\* Subgroup 9 of the [4, 8] grid ran the code of a marked init_tile and
\* took row 1 and column 2 for the origin of its tile.
C26_Witness ==
  /\ IsMarked
  /\ op.sgLayout = <<4, 8>>
  /\ \E run \in RunsWithTiles :
       /\ run.sgID = 9
       /\ run.tiles[1].row = BaseRow(op) + 1
       /\ run.tiles[1].col = BaseCol(op) + 2


(***************************************************************************)
(* Properties of the chain init_tile, load_tile, elementwise, store_tile.  *)
(***************************************************************************)
\* wgTileShape[k] is an integer multiple of sgLayout[k] * sgData[k].
ChainIsMultiple ==
  \A k \in 1..2 : op.shape[k] % (op.sgLayout[k] * op.sgData[k]) = 0

\* The store_tile ops the chain has created.
ChainStores == { n \in 1..Len(created) : created[n].kind = "store_tile" }

\* How many elementwise instances read the loaded value v.
ChainConsumers(v) ==
  Cardinality({ n \in 1..Len(mapping[3]) :
                  \E j \in 1..Len(mapping[3][n].operands) :
                    mapping[3][n].operands[j] = v })

\* For a multiple workgroup shape the elementwise rewrite never reads
\* past the end of the loaded values, and the store rewrite never reads
\* past the end of the tiles: no instance has an undefined operand, no
\* store an undefined tile, and no rewrite stops on the range assertion.
ChainReadsInRange ==
  ChainIsMultiple =>
    /\ pc = "chain"
    /\ cursor >= 3 =>
         /\ Len(mapping[3]) <= Len(mapping[2])
         /\ \A n \in 1..Len(mapping[3]) :
              mapping[3][n].operands[1] = mapping[2][n]
    /\ \A n \in ChainStores : \E k \in 1..Len(mapping[1]) : created[n].tile = mapping[1][k]

\* C27: for a multiple workgroup shape the elementwise rewrite emits as
\* many instances as the init_tile and load_tile rewrites produce
\* sub-tiles; so, once the chain is rewritten, every loaded value is
\* consumed by exactly one instance and every destination tile receives
\* a store.
C27_AsStated ==
  ChainIsMultiple =>
    /\ cursor >= 3 =>
         /\ Len(mapping[1]) = Len(mapping[2])
         /\ Len(mapping[3]) = Len(mapping[1])
         /\ \A n \in 1..Len(mapping[2]) : ChainConsumers(mapping[2][n]) = 1
    /\ cursor = 4 =>
         \A n \in 1..Len(mapping[1]) :
           \E s \in ChainStores : created[s].tile = mapping[1][n]

\* The chain over a 2x4 tile with sg_layout [1, 1] and sg_data [2, 2] is
\* rewritten: two sub-tiles are loaded, one instance is emitted, and the
\* second tile receives no store.
C27_TileWithoutStore ==
  /\ ChainIsMultiple
  /\ op.shape = <<2, 4>> /\ op.sgLayout = <<1, 1>> /\ op.sgData = <<2, 2>>
  /\ cursor = 4
  /\ Len(mapping[1]) = 2 /\ Len(mapping[2]) = 2 /\ Len(mapping[3]) = 1
  /\ ChainConsumers(mapping[2][2]) = 0
  /\ \A s \in ChainStores : created[s].tile # mapping[1][2]


(***************************************************************************)
(* Properties of the scratch regions of the layout conversion.             *)
(***************************************************************************)
\* The shape of the view the store goes through: the memref.view of shape
\* resShape, transposed when the transpose is folded (lines 714-720).
StoreViewShape ==
  IF isOneUseTranspose(op) THEN <<op.resShape[2], op.resShape[1]>>
  ELSE op.resShape

\* The source map tiles the stored value exactly, once per subgroup.
SourceMapTilesShape ==
  \A k \in 1..2 :
    srcMapAttr(op).sgLayout[k] * srcMapAttr(op).sgData[k]
      = StoreViewShape[k]

\* The positions of the view subgroup s has stored to.
StoredPositions(s) == { c.pos : c \in sgRuns.stored[s].cells }

\* The subgroups whose store_tile wrote position p.
WritersOf(p) == { s \in DOMAIN sgRuns.next : p \in StoredPositions(s) }

\* The regions the subgroups have stored so far lie inside the view, no
\* two of them share an element, and once every subgroup has stored they
\* cover the view; every element loaded was written by one subgroup.
RegionsPartitionView ==
  /\ sgRuns.outside = {}
  /\ \A s, t \in DOMAIN sgRuns.next :
       s # t => StoredPositions(s) \cap StoredPositions(t) = {}
  /\ (\A s \in DOMAIN sgRuns.next : HasStored(s)) =>
       UNION { StoredPositions(s) : s \in DOMAIN sgRuns.next }
         = ViewPositions(created)
  /\ \A s \in DOMAIN sgRuns.next :
       \A c \in sgRuns.loaded[s].cells :
         /\ Cardinality(WritersOf(c.pos)) = 1
         /\ c.value.sg \in WritersOf(c.pos)

\* When the source map tiles the value exactly and the element width is
\* a whole number of bytes, the subgroups' regions partition the view and
\* lie inside the allocated bytes.
ByteElementsPartitionBuffer ==
  SlmStarted /\ SourceMapTilesShape /\ op.elemBitWidth % 8 = 0 =>
    RegionsPartitionView /\ sgRuns.overrun = {}

\* C28: when the source map tiles the value exactly, the regions stored
\* by the subgroups 0..L0*L1-1 lie inside the buffer, are pairwise
\* disjoint and together cover the buffer, so every element a subgroup
\* loads after the barrier was written by exactly one subgroup.
C28_AsStated ==
  SlmStarted /\ SourceMapTilesShape =>
    /\ sgRuns.overrun = {}
    /\ RegionsPartitionView

\* The source map [2, 1] x [1, 2] tiles a 2x2 value of 1-bit elements:
\* both subgroups have stored disjoint rows of the view, and both rows
\* lie past the end of the 0-byte allocation.
C28_RegionsPastTheBuffer ==
  /\ SlmStarted /\ SourceMapTilesShape
  /\ op.elemBitWidth = 1
  /\ \A s \in DOMAIN sgRuns.next : HasStored(s)
  /\ StoredPositions(0) \cap StoredPositions(1) = {}
  /\ \A s \in DOMAIN sgRuns.next :
       \A p \in StoredPositions(s) : [sg |-> s, pos |-> p] \in sgRuns.overrun


(***************************************************************************)
(* Properties of the rewritten loop.                                       *)
(***************************************************************************)
LoopRewritten == pc = "chain" /\ Len(module) = 6 /\ cursor = 6

\* The scf.yield as the yield rule left it.
NewYield == created[CHOOSE n \in DOMAIN created : created[n].kind = "yield"]

\* The remapped value lists of the operands of the yield, in operand
\* order.
RemappedYields ==
  << mapping[4],
     IF module[6].yielded = "exp" THEN mapping[5]
     ELSE BodyArgsOf(NewLoop, remappedArgSizes(LoopBodyFor(mapping)), 2) >>

\* The new loop has one body argument and one result per flattened init
\* arg, with the same i-th types, and the yield holds the remapped lists
\* of its operands one after another.
LoopSignatureAndYieldList ==
  LoopRewritten =>
    /\ Len(NewLoop.bodyArgTypes) = 1 + Len(NewLoop.initArgs)
    /\ Len(NewLoop.results) = Len(NewLoop.initArgs)
    /\ \A i \in 1..Len(NewLoop.initArgs) :
         /\ NewLoop.bodyArgTypes[i + 1] = NewLoop.initArgs[i].type
         /\ NewLoop.results[i].type = NewLoop.initArgs[i].type
    /\ NewYield.results = RemappedYields[1] \o RemappedYields[2]

\* C29: after the for rule and the yield rule have both been applied,
\* the new loop's init args, loop-carried body arguments, results and
\* yield operands are equally many and have the same i-th types; the
\* yield's operand list is the concatenation of the remapped lists of its
\* operands in the original order.
C29_AsStated ==
  LoopRewritten =>
    /\ Len(NewLoop.bodyArgTypes) - 1 = Len(NewLoop.initArgs)
    /\ Len(NewLoop.results) = Len(NewLoop.initArgs)
    /\ Len(NewYield.results) = Len(NewLoop.initArgs)
    /\ \A i \in 1..Len(NewLoop.initArgs) :
         /\ NewLoop.bodyArgTypes[i + 1] = NewLoop.initArgs[i].type
         /\ NewLoop.results[i].type = NewLoop.initArgs[i].type
         /\ ValueType(NewYield.results[i]) = NewLoop.initArgs[i].type
    /\ NewYield.results = Flatten(RemappedYields)

\* The loop over a 2x4 tile with sg_layout [1, 1] and sg_data [2, 2] that
\* yields math.exp of its vector argument: the new loop carries two tiles
\* and two vectors, its yield two tiles and one vector.
C29_YieldShorterThanResults ==
  /\ LoopRewritten
  /\ op.shape = <<2, 4>> /\ op.sgLayout = <<1, 1>> /\ op.sgData = <<2, 2>>
  /\ module[6].yielded = "exp"
  /\ Len(NewLoop.initArgs) = 4
  /\ Len(NewLoop.results) = 4
  /\ Len(NewYield.results) = 3
  /\ NewYield.results = Flatten(RemappedYields)


(***************************************************************************)
(* Properties of VectorInsertOpConversion.                                 *)
(***************************************************************************)
\* The N-d indices of a vector of the given shape.
IndicesOf(shape) ==
  { f \in [1..Len(shape) -> 0..(MaxInsertDim + 1)] :
      \A k \in 1..Len(shape) : f[k] < shape[k] }

\* Row-major position of an N-d index: the last dimension runs fastest.
RECURSIVE RowMajor(_, _)
RowMajor(shape, idx) ==
  IF shape = <<>> THEN 0
  ELSE RowMajor(SubSeq(shape, 1, Len(shape) - 1),
                SubSeq(idx, 1, Len(idx) - 1)) * shape[Len(shape)]
         + idx[Len(idx)]

\* Element idx of the result of vector.insert: the element of the source
\* when idx starts with the position, else the element of the destination.
InsertedElement(o, idx) ==
  IF SubSeq(idx, 1, Len(o.position)) = o.position
    THEN <<"source",
           RowMajor(o.srcShape, SubSeq(idx, Len(o.position) + 1, Len(idx)))>>
    ELSE <<"dest", RowMajor(o.dstShape, idx)>>

InsertEvaluated == op.kind = "vector.insert" /\ sgRuns # <<>>

\* C30: for a static-position vector.insert of a vector source of srcSize
\* elements at row-major linearized offset o, the two shuffles yield a
\* 1-D vector of dstSize elements: the linearized destination with the
\* positions o..o+srcSize-1 replaced by the source elements in order and
\* every other position unchanged; an insert with a dynamic position or a
\* scalar source is declined.
C30_InsertByShuffles ==
  /\ op.kind = "vector.insert" /\ rewriter.status # "pending" =>
       (rewriter.status = "failure")
          = (op.dynamicPosition \/ ~op.sourceIsVector)
  /\ op.kind = "vector.insert" /\ rewriter.status = "failure" =>
       rewriter.newOps = <<>>
  /\ InsertEvaluated =>
       LET dstSize == NumElements(op.dstShape)
           srcSize == NumElements(op.srcShape)
           o == RowMajor(op.dstShape,
                  op.position \o [k \in 1..Len(op.srcShape) |-> 0])
       IN  /\ Len(rewriter.newOps) = 2
           /\ Len(sgRuns) = dstSize
           /\ \A n \in 0..(dstSize - 1) :
                sgRuns[n + 1] =
                  IF o <= n /\ n < o + srcSize THEN <<"source", n - o>>
                  ELSE <<"dest", n>>
           /\ \A idx \in IndicesOf(op.dstShape) :
                sgRuns[RowMajor(op.dstShape, idx) + 1]
                  = InsertedElement(op, idx)

\* A 2-element row is inserted at position [1, 0] of a 2x2x2 vector: the
\* elements 4 and 5 of the linearized result are the source, the others
\* the destination.
C30_Witness ==
  /\ InsertEvaluated
  /\ op.dstShape = <<2, 2, 2>> /\ op.position = <<1, 0>>
  /\ sgRuns = << <<"dest", 0>>, <<"dest", 1>>, <<"dest", 2>>, <<"dest", 3>>,
                 <<"source", 0>>, <<"source", 1>>,
                 <<"dest", 6>>, <<"dest", 7>> >>

=============================================================================
